---- MODULE Spec2Model ----
(***************************************************************************)
(* Macaques: the backend patch registry (service-registry.ts) and the      *)
(* frontend overlay resolution hook (vite-plugin.ts, shared/utils.ts).     *)
(***************************************************************************)
EXTENDS Integers, Sequences, FiniteSets, TLC

(***************************************************************************)
(* Bounds of the model                                                     *)
(***************************************************************************)
\* longest patch list a registry is driven to
MaxPatches == 3
\* deepest chain of wrappers an instance in the container is driven to
MaxDepth == 2
\* most module lookups of one build session
MaxChecked == 3
\* longest patch list of a manifest
MaxEntries == 2
\* longest patch list of the backend manifest the validator reads
MaxBackendEntries == 1

(***************************************************************************)
(* Patch registry: values                                                  *)
(***************************************************************************)
\* service classes used as patch targets (ServicePatch.target)
Targets == {"SvcA", "SvcB"}

\* factories the registered patches carry; each wraps the original it is given
Factories == {"f1", "f2", "f3"}

\* the step of the try block of applyPatches in which a collaborator raises
Steps == {"get", "factory", "set"}

\* where a run of applyPatches meets a raising collaborator: in iteration `at`
\* (0: nowhere), in the call `step`
NoFail == [at |-> 0, step |-> "none"]
FailChoices == {NoFail} \cup [at : 1..MaxPatches, step : Steps]

\* the ServicePatch values extension modules register: the target class and
\* the factory.  Two patches share the target SvcA, a third patches SvcB
PatchSet == {[target |-> "SvcA", factory |-> "f1"],
             [target |-> "SvcA", factory |-> "f2"],
             [target |-> "SvcB", factory |-> "f3"]}

NoTarget == "none"

NoError == [name |-> "none", targetId |-> NoTarget, cause |-> "none"]

\* an exception raised by a collaborator (container.get, factory, container.set)
\* or by register(); it carries no target identifier of its own
Err(name) == [name |-> name, targetId |-> NoTarget, cause |-> "none"]

\* the exception form that wraps an underlying one and names the failing target
WrappedErr(t, e) == [name |-> "PatchApplyError", targetId |-> t, cause |-> e.name]

\* one logger call: level, the target it names, the count it reports, the
\* exception it prints
LogEntry(level, t, n, cause) == [level |-> level, target |-> t, count |-> n, cause |-> cause]

\* the outcome of one container.get / factory / container.set call
GetCall(t) == [op |-> "get", target |-> t, factory |-> "none", arg |-> <<>>]
FactoryCall(t, f, original) == [op |-> "factory", target |-> t, factory |-> f, arg |-> original]
SetCall(t, f, patched) == [op |-> "set", target |-> t, factory |-> f, arg |-> patched]

\* patch.factory(original): returns a wrapper around the original (an instance
\* is modelled by the chain of wrappers around the host's own instance <<>>)
FactoryResult(f, original) == Append(original, f)

VARIABLES
    patches,         \* MacaquesServiceRegistry.patches
    applied,         \* MacaquesServiceRegistry.applied
    container,       \* the DI container: target class -> instance
    result,          \* how the last registry call ended: op, threw, error, cause, failedAt
    calls,           \* the container/factory calls the last registry call made, in order
    logs,            \* the logger calls the last registry call made, in order
    succeededApply,  \* history: an applyPatches() has run the list to its end since the last reset()
    failedApply,     \* history: an applyPatches() has thrown since the last reset()
    factoryCalls,    \* history: per registered patch, how often its factory was invoked
                     \* since the last reset(); kept while no applyPatches() has thrown
    sinceReset,      \* history: the patches register() accepted since the last reset()
    fault,           \* history: the step the container or a factory raised at in the last call
    aliasPrefix,     \* FrontendOptions.aliasPrefix of the plugin instance
    fs,              \* the paths existsSync answers true for
    overrides,       \* stats.overrides: import specifier -> override path
    checked,         \* stats.checked
    resolved,        \* what the last resolveId call returned (Null: null)
    lastCall,        \* history: the source, file system and result of the last resolveId
                     \* call, and whether the call before it had the same source and
                     \* file system
    manifest,        \* the manifest the plugin instance loaded in configResolved
    built,           \* what the last buildStart call did: the patches it checked, its
                     \* issue count, its warnings, whether it threw
    configResult,    \* what the configResolved call did: the manifest file it read,
                     \* whether loadManifest logged or raised, whether the hook raised
    frontendManifest, \* what loadManifest makes of <extensions>/frontend/patches.manifest.json
    backendManifest, \* what loadManifest makes of <extensions>/backend/patches.manifest.json
    results,         \* the ValidationResult list of the validator process
    hot,             \* what the last handleHotUpdate call did: the file, whether it
                     \* sent a full reload, what it returned
    boot,            \* the bootstrap() / initializeExtensions() call under way or last
                     \* made: its position, the files still to import, those imported
    imported,        \* the module cache: the extension files import() has evaluated
    previous,        \* history: the paths documented after the run before this one, and its exit code
    exitCode         \* the exit code of the validator process (NotExited: still to run)

regVars == <<patches, applied, container, result, calls, logs,
             succeededApply, failedApply, factoryCalls, sinceReset, fault>>

feVars == <<aliasPrefix, fs, overrides, checked, resolved, lastCall, manifest, built,
            configResult>>

cliVars == <<frontendManifest, backendManifest, results, exitCode, previous>>

hostVars == <<hot, boot, imported>>

vars == <<regVars, feVars, cliVars, hostVars>>

\* a call that returned
Returned(op) ==
    [op |-> op, threw |-> FALSE, error |-> NoError, cause |-> NoError, failedAt |-> 0]

\* a call that threw error; cause is the exception caught on the way, failedAt
\* the patch whose try block caught it (0: none)
Threw(op, error, cause, failedAt) ==
    [op |-> op, threw |-> TRUE, error |-> error, cause |-> cause, failedAt |-> failedAt]

(***************************************************************************)
(* Patch registry: operations                                              *)
(***************************************************************************)
\* register(patch) putting the patch at the head of the list
RegisterUnshift(patch) ==
    /\ IF applied
       THEN /\ result' = Threw("register", Err("RegistrationAfterApply"),
                               Err("RegistrationAfterApply"), 0)
            /\ logs' = <<>>
            /\ UNCHANGED <<patches, factoryCalls, sinceReset>>
       ELSE /\ Len(patches) < MaxPatches
            /\ patches' = <<patch>> \o patches
            /\ factoryCalls' = IF failedApply THEN <<>> ELSE <<0>> \o factoryCalls
            /\ sinceReset' = Append(sinceReset, patch)
            /\ result' = Returned("register")
            /\ logs' = <<LogEntry("info", patch.target, 0, "none")>>
    /\ calls' = <<>>
    /\ fault' = NoFail
    /\ UNCHANGED <<applied, container, succeededApply, failedApply>>

\* register(patch) without the check of the applied flag
RegisterUnchecked(patch) ==
    /\ Len(patches) < MaxPatches
    /\ patches' = Append(patches, patch)
    /\ factoryCalls' = IF failedApply THEN <<>> ELSE Append(factoryCalls, 0)
    /\ sinceReset' = Append(sinceReset, patch)
    /\ result' = Returned("register")
    /\ logs' = <<LogEntry("info", patch.target, 0, "none")>>
    /\ calls' = <<>>
    /\ fault' = NoFail
    /\ UNCHANGED <<applied, container, succeededApply, failedApply>>

\* register(patch)
Register(patch) ==
    /\ IF applied
       THEN /\ result' = Threw("register", Err("RegistrationAfterApply"),
                               Err("RegistrationAfterApply"), 0)
            /\ logs' = <<>>
            /\ UNCHANGED <<patches, factoryCalls, sinceReset>>
       ELSE /\ Len(patches) < MaxPatches
            /\ patches' = Append(patches, patch)
            /\ factoryCalls' = IF failedApply THEN <<>> ELSE Append(factoryCalls, 0)
            /\ sinceReset' = Append(sinceReset, patch)
            /\ result' = Returned("register")
            /\ logs' = <<LogEntry("info", patch.target, 0, "none")>>
    /\ calls' = <<>>
    /\ fault' = NoFail
    /\ UNCHANGED <<applied, container, succeededApply, failedApply>>

\* a catch block that throws a new error naming the target
RethrowWrapped(t, e) == WrappedErr(t, e)

\* the error the catch block of applyPatches hands to its caller: `throw error`
Rethrow(t, e) == e

\* the state of the for-loop of applyPatches after patch i-1
LoopState(c, tr, lg) ==
    [container |-> c, calls |-> tr, logs |-> lg,
     threw |-> FALSE, error |-> NoError, cause |-> NoError, failedAt |-> 0]

Caught(st, i, t, tr, e) ==
    [st EXCEPT !.calls = tr,
               !.logs = Append(st.logs, LogEntry("error", t, 0, e.name)),
               !.threw = TRUE,
               !.error = Rethrow(t, e),
               !.cause = e,
               !.failedAt = i]

Raises(fail, i, step) == fail.at = i /\ fail.step = step

\* one iteration of the for-loop: the try block for patch i
ApplyOne(ps, st, i, fail) ==
    LET p == ps[i]
        t == p.target
        trGet == Append(st.calls, GetCall(t))
        original == st.container[t]
        trFac == Append(trGet, FactoryCall(t, p.factory, original))
        patched == FactoryResult(p.factory, original)
        trSet == Append(trFac, SetCall(t, p.factory, patched))
    IN  IF Raises(fail, i, "get")
        THEN Caught(st, i, t, trGet, Err("GetError"))
        ELSE IF Raises(fail, i, "factory")
        THEN Caught(st, i, t, trFac, Err("FactoryError"))
        ELSE IF Raises(fail, i, "set")
        THEN Caught(st, i, t, trSet, Err("SetError"))
        ELSE [st EXCEPT !.container = [st.container EXCEPT ![t] = patched],
                        !.calls = trSet,
                        !.logs = Append(st.logs, LogEntry("patch", t, 0, "none"))]

\* the for-loop walking the patch list from its end
RECURSIVE ApplyLoopReversed(_, _, _, _)
ApplyLoopReversed(ps, st, i, fail) ==
    IF i > Len(ps)
    THEN st
    ELSE LET next == ApplyOne(ps, st, Len(ps) + 1 - i, fail)
         IN  IF next.threw
             THEN next
             ELSE ApplyLoopReversed(ps, next, i + 1, fail)

\* the for-loop with a catch block that logs and goes on to the next patch
RECURSIVE ApplyLoopContinue(_, _, _, _)
ApplyLoopContinue(ps, st, i, fail) ==
    IF i > Len(ps)
    THEN st
    ELSE ApplyLoopContinue(ps, ApplyOne(ps, st, i, fail), i + 1, fail)

\* the for-loop of applyPatches from patch i on; a throw leaves the loop
RECURSIVE ApplyLoop(_, _, _, _)
ApplyLoop(ps, st, i, fail) ==
    IF i > Len(ps)
    THEN st
    ELSE LET next == ApplyOne(ps, st, i, fail)
         IN  IF next.threw
             THEN next
             ELSE ApplyLoop(ps, next, i + 1, fail)

\* how often a run with the call trace tr called the factory of patch i: the
\* factory call of patch i is the second call of the i-th iteration
TimesCalled(tr, i) == IF Len(tr) >= 3 * i - 1 THEN 1 ELSE 0

\* applyPatches(container) on a registry whose patches have been applied:
\* warns and returns
AlreadyApplied(fail) ==
    /\ fail = NoFail
    /\ logs' = <<LogEntry("warn", NoTarget, 0, "none")>>
    /\ calls' = <<>>
    /\ fault' = fail
    /\ result' = Returned("applyPatches")
    /\ UNCHANGED <<patches, applied, container, succeededApply, failedApply,
                   factoryCalls, sinceReset>>

\* a run of the patch list that starts from the host's own instances
RunPatchesFromClean(fail) ==
    LET st == ApplyLoop(patches, LoopState([t \in Targets |-> <<>>], <<>>, <<>>), 1, fail)
    IN  /\ fail.at <= Len(patches)
        /\ UNCHANGED <<patches, sinceReset>>
        /\ calls' = st.calls
        /\ fault' = fail
        /\ container' = st.container
        /\ \A t \in Targets : Len(st.container[t]) <= MaxDepth
        /\ factoryCalls' = IF failedApply \/ st.threw
                           THEN <<>>
                           ELSE [i \in 1..Len(patches) |->
                                   factoryCalls[i] + TimesCalled(st.calls, i)]
        /\ IF st.threw
           THEN /\ logs' = st.logs
                /\ result' = Threw("applyPatches", st.error, st.cause, st.failedAt)
                /\ failedApply' = TRUE
                /\ UNCHANGED <<applied, succeededApply>>
           ELSE /\ applied' = TRUE
                /\ logs' = Append(st.logs,
                                  LogEntry("success", NoTarget, Len(patches), "none"))
                /\ result' = Returned("applyPatches")
                /\ succeededApply' = TRUE
                /\ UNCHANGED failedApply

\* a run of the patch list that sets the applied flag before the loop
RunPatchesFlagFirst(fail) ==
    LET st == ApplyLoop(patches, LoopState(container, <<>>, <<>>), 1, fail)
    IN  /\ fail.at <= Len(patches)
        /\ UNCHANGED <<patches, sinceReset>>
        /\ calls' = st.calls
        /\ fault' = fail
        /\ container' = st.container
        /\ \A t \in Targets : Len(st.container[t]) <= MaxDepth
        /\ factoryCalls' = IF failedApply \/ st.threw
                           THEN <<>>
                           ELSE [i \in 1..Len(patches) |->
                                   factoryCalls[i] + TimesCalled(st.calls, i)]
        /\ applied' = TRUE
        /\ IF st.threw
           THEN /\ logs' = st.logs
                /\ result' = Threw("applyPatches", st.error, st.cause, st.failedAt)
                /\ failedApply' = TRUE
                /\ UNCHANGED succeededApply
           ELSE /\ logs' = Append(st.logs,
                                  LogEntry("success", NoTarget, Len(patches), "none"))
                /\ result' = Returned("applyPatches")
                /\ succeededApply' = TRUE
                /\ UNCHANGED failedApply

\* applyPatches(container) past the applied check: the loop, then the flag and
\* the success message
RunPatches(fail) ==
    LET st == ApplyLoop(patches, LoopState(container, <<>>, <<>>), 1, fail)
    IN  /\ fail.at <= Len(patches)
        /\ UNCHANGED <<patches, sinceReset>>
        /\ calls' = st.calls
        /\ fault' = fail
        /\ container' = st.container
        /\ \A t \in Targets : Len(st.container[t]) <= MaxDepth
        /\ factoryCalls' = IF failedApply \/ st.threw
                           THEN <<>>
                           ELSE [i \in 1..Len(patches) |->
                                   factoryCalls[i] + TimesCalled(st.calls, i)]
        /\ IF st.threw
           THEN /\ logs' = st.logs
                /\ result' = Threw("applyPatches", st.error, st.cause, st.failedAt)
                /\ failedApply' = TRUE
                /\ UNCHANGED <<applied, succeededApply>>
           ELSE /\ applied' = TRUE
                /\ logs' = Append(st.logs,
                                  LogEntry("success", NoTarget, Len(patches), "none"))
                /\ result' = Returned("applyPatches")
                /\ succeededApply' = TRUE
                /\ UNCHANGED failedApply

\* applyPatches(container) without the check of the applied flag
ApplyPatchesUnchecked(fail) == RunPatches(fail)

\* applyPatches(container) returning early on an empty list, before the flag
\* is set
ApplyPatchesSkipEmpty(fail) ==
    IF applied \/ patches = <<>> THEN AlreadyApplied(fail) ELSE RunPatches(fail)

\* applyPatches(container)
ApplyPatches(fail) ==
    IF applied THEN AlreadyApplied(fail) ELSE RunPatches(fail)

\* what getPatches() returns
getPatches == patches

\* what isApplied() returns
isApplied == applied

\* a getPatches() call
GetPatches ==
    /\ result' = Returned("getPatches")
    /\ calls' = <<>>
    /\ fault' = NoFail
    /\ logs' = <<>>
    /\ UNCHANGED <<patches, applied, container, succeededApply, failedApply,
                   factoryCalls, sinceReset>>

\* an isApplied() call
IsApplied ==
    /\ result' = Returned("isApplied")
    /\ calls' = <<>>
    /\ fault' = NoFail
    /\ logs' = <<>>
    /\ UNCHANGED <<patches, applied, container, succeededApply, failedApply,
                   factoryCalls, sinceReset>>

\* reset() clearing the list but not the flag
ResetKeepsApplied ==
    /\ patches' = <<>>
    /\ factoryCalls' = <<>>
    /\ sinceReset' = <<>>
    /\ succeededApply' = FALSE
    /\ failedApply' = FALSE
    /\ result' = Returned("reset")
    /\ calls' = <<>>
    /\ fault' = NoFail
    /\ logs' = <<>>
    /\ UNCHANGED <<applied, container>>

\* reset()
Reset ==
    /\ patches' = <<>>
    /\ applied' = FALSE
    /\ factoryCalls' = <<>>
    /\ sinceReset' = <<>>
    /\ succeededApply' = FALSE
    /\ failedApply' = FALSE
    /\ result' = Returned("reset")
    /\ calls' = <<>>
    /\ fault' = NoFail
    /\ logs' = <<>>
    /\ UNCHANGED container

(***************************************************************************)
(* Frontend overlay resolution: strings and paths                          *)
(*                                                                         *)
(* A string is the sequence of its lexical tokens; no token is a prefix of *)
(* another token that can stand in the same place, so startsWith and slice *)
(* on token sequences agree with the character-level operations.           *)
(***************************************************************************)
Null == <<>>

\* String.prototype.startsWith
StartsWith(s, p) == Len(s) >= Len(p) /\ SubSeq(s, 1, Len(p)) = p

\* String.prototype.slice(n)
Slice(s, n) == SubSeq(s, n + 1, Len(s))

\* resolve(extensionsDir, 'frontend')
frontendExtensionsDir == <<"/", "ext", "/", "frontend">>

\* resolve(n8nDir, 'packages', 'frontend', 'editor-ui', 'src')
n8nEditorUiSrc == <<"/", "n8n", "/", "packages", "/", "frontend", "/", "editor-ui", "/", "src">>

\* the literal '@n8n-base/' of resolveId
BaseAlias == <<"@", "n8n-base", "/">>

\* path.resolve(dir, ...parts) for an absolute dir and relative parts without
\* '.' or '..' segments: the non-empty parts joined by '/'
RECURSIVE PathResolve(_, _)
PathResolve(dir, parts) ==
    IF parts = <<>>
    THEN dir
    ELSE PathResolve(IF Head(parts) = <<>> THEN dir ELSE dir \o <<"/">> \o Head(parts),
                     Tail(parts))

\* the default probe list of findFileWithExtensions ('' is the bare name)
Extensions == <<"", ".ts", ".tsx", ".js", ".jsx", ".vue">>

WithExt(basePath, ext) == IF ext = "" THEN basePath ELSE Append(basePath, ext)

\* existsSync(path) on the file system files
ExistsSync(files, path) == path \in files

\* the for-loop stopping one probe short of the end of the list
RECURSIVE FindFromSkipLast(_, _, _)
FindFromSkipLast(files, basePath, k) ==
    IF k >= Len(Extensions)
    THEN Null
    ELSE IF ExistsSync(files, WithExt(basePath, Extensions[k]))
         THEN WithExt(basePath, Extensions[k])
         ELSE FindFromSkipLast(files, basePath, k + 1)

\* the for-loop taking the last probe that finds a file
RECURSIVE FindFromLastMatch(_, _, _)
FindFromLastMatch(files, basePath, k) ==
    IF k > Len(Extensions)
    THEN Null
    ELSE IF FindFromLastMatch(files, basePath, k + 1) # Null
         THEN FindFromLastMatch(files, basePath, k + 1)
         ELSE IF ExistsSync(files, WithExt(basePath, Extensions[k]))
              THEN WithExt(basePath, Extensions[k])
              ELSE Null

\* the for-loop of findFileWithExtensions from probe k on
RECURSIVE FindFrom(_, _, _)
FindFrom(files, basePath, k) ==
    IF k > Len(Extensions)
    THEN Null
    ELSE IF ExistsSync(files, WithExt(basePath, Extensions[k]))
         THEN WithExt(basePath, Extensions[k])
         ELSE FindFrom(files, basePath, k + 1)

\* findFileWithExtensions(basePath)
findFileWithExtensions(files, basePath) == FindFrom(files, basePath, 1)

\* resolveAliasedPath(source, aliasPrefix, targetDir)
resolveAliasedPath(source, prefix, targetDir) ==
    IF ~StartsWith(source, Append(prefix, "/"))
    THEN Null
    ELSE PathResolve(targetDir, <<Slice(source, Len(prefix) + 1)>>)

\* the alias prefixes a plugin instance is configured with: the default '@',
\* '~', and '@n8n-base'
AliasPrefixes == {<<"@">>, <<"~">>, <<"@", "n8n-base">>}

\* the import specifiers looked up: '@/a', '@/a.ts', '~/a', '@n8n-base/a',
\* '@a', 'a'
Specifiers == {<<"@", "/", "a">>, <<"@", "/", "a", ".ts">>, <<"~", "/", "a">>,
               <<"@", "n8n-base", "/", "a">>, <<"@", "a">>, <<"a">>}

\* the files that come and go while a plugin instance with this prefix runs:
\* <extensions>/<prefix>/a.ts, a.vue and <n8n src>/a.ts, a.vue
FsUniverse(prefix) ==
    {PathResolve(frontendExtensionsDir, <<prefix, <<"a", e>> >>) : e \in {".ts", ".vue"}}
    \cup {PathResolve(n8nEditorUiSrc, <<<<"a", e>> >>) : e \in {".ts", ".vue"}}

EmptyMap == [x \in {} |-> Null]

MapSet(m, k, v) == [x \in (DOMAIN m) \cup {k} |-> IF x = k THEN v ELSE m[x]]

\* no resolveId call made yet
NoCall == [source |-> Null, fs |-> {}, resolved |-> Null, repeated |-> FALSE]

(***************************************************************************)
(* Patch manifests                                                         *)
(***************************************************************************)
\* PatchEntry.type
PatchTypes == {"replace", "extend", "service_extension", "new_controller", "module", "hook"}

\* a PatchEntry: its path and its type
Entry(path, type) == [path |-> path, type |-> type]

\* loadManifest returned null
NoManifest == [present |-> FALSE, hasPatches |-> FALSE, patches |-> <<>>]

\* loadManifest returned a PatchManifest with these patches
Manifest(ps) == [present |-> TRUE, hasPatches |-> TRUE, patches |-> ps]

\* loadManifest returned what JSON.parse made of a file that holds JSON
\* without a patches list: the cast to PatchManifest checks nothing
ShapelessManifest == [present |-> TRUE, hasPatches |-> FALSE, patches |-> <<>>]

\* the sequences of at most n elements of S
SeqsUpTo(S, n) == UNION {[1..k -> S] : k \in 0..n}

\* the entries of the frontend manifests read: '@/a' as a replace and as a
\* hook patch, '@/a.ts' as an extend patch
FrontendEntries ==
    {Entry(<<"@", "/", "a">>, "replace"),
     Entry(<<"@", "/", "a", ".ts">>, "extend"),
     Entry(<<"@", "/", "a">>, "hook")}

\* what loadManifest can return for the frontend manifest file
FrontendManifests ==
    {NoManifest} \cup {Manifest(ps) : ps \in SeqsUpTo(FrontendEntries, MaxEntries)}

\* a manifest file on disk: absent; present but unreadable or not JSON;
\* present and holding the JSON value json
MissingFile == [exists |-> FALSE, parses |-> FALSE, json |-> NoManifest]
UnparsableFile == [exists |-> TRUE, parses |-> FALSE, json |-> NoManifest]
JsonFile(value) == [exists |-> TRUE, parses |-> TRUE, json |-> value]

\* the manifest entries of a build: the frontend entries and one written
\* with the alias prefix '~'
BuildEntries == FrontendEntries \cup {Entry(<<"~", "/", "a">>, "replace")}

\* the frontend manifest files configResolved meets: none, a broken one, the
\* JSON null, an object without a patches list, the manifests
ManifestFiles ==
    {MissingFile, UnparsableFile, JsonFile(NoManifest), JsonFile(ShapelessManifest)}
        \cup {JsonFile(Manifest(ps)) : ps \in SeqsUpTo(BuildEntries, MaxEntries)}

\* configResolved has not been called on the plugin instance
NotConfigured == [called |-> FALSE, file |-> MissingFile, parseError |-> FALSE,
                  loadThrew |-> FALSE, threw |-> FALSE]

\* String.prototype.indexOf(pat) from position i on, 1-based; 0: no occurrence
RECURSIVE IndexOf(_, _, _)
IndexOf(s, pat, i) ==
    IF i + Len(pat) - 1 > Len(s)
    THEN 0
    ELSE IF SubSeq(s, i, i + Len(pat) - 1) = pat
         THEN i
         ELSE IndexOf(s, pat, i + 1)

\* String.prototype.replace(pat, '') for a string pattern: the first
\* occurrence of pat is removed
Replace(s, pat) ==
    IF IndexOf(s, pat, 1) = 0
    THEN s
    ELSE SubSeq(s, 1, IndexOf(s, pat, 1) - 1)
             \o SubSeq(s, IndexOf(s, pat, 1) + Len(pat), Len(s))

\* no buildStart call made yet
NotBuilt == [ran |-> FALSE, checkedPatches |-> <<>>, issues |-> 0, warnings |-> <<>>,
             threw |-> FALSE]

\* one logger.warn call of buildStart: which check failed, for which patch
\* path, and the count the summary reports
Warning(kind, path, n) == [kind |-> kind, path |-> path, count |-> n]

(***************************************************************************)
(* Frontend overlay resolution: operations                                 *)
(***************************************************************************)
\* the override probe of resolveId: Null when the source does not carry the
\* alias prefix or no override exists
OverrideProbe(source) ==
    IF StartsWith(source, Append(aliasPrefix, "/"))
    THEN findFileWithExtensions(fs,
             PathResolve(frontendExtensionsDir,
                         <<aliasPrefix, Slice(source, Len(aliasPrefix) + 1)>>))
    ELSE Null

\* a base branch that probes the n8n sources for every specifier
BaseProbeAll(source) ==
    findFileWithExtensions(fs,
        PathResolve(n8nEditorUiSrc,
                    <<IF StartsWith(source, BaseAlias)
                      THEN Slice(source, Len(BaseAlias))
                      ELSE source>>))

\* a base branch that looks into the extensions directory before the n8n sources
BaseProbeOverrides(source) ==
    IF StartsWith(source, BaseAlias)
    THEN IF findFileWithExtensions(fs,
                PathResolve(frontendExtensionsDir,
                            <<aliasPrefix, Slice(source, Len(BaseAlias))>>)) # Null
         THEN findFileWithExtensions(fs,
                  PathResolve(frontendExtensionsDir,
                              <<aliasPrefix, Slice(source, Len(BaseAlias))>>))
         ELSE findFileWithExtensions(fs,
                  PathResolve(n8nEditorUiSrc, <<Slice(source, Len(BaseAlias))>>))
    ELSE Null

\* the '@n8n-base/' branch of resolveId
BaseProbe(source) ==
    IF StartsWith(source, BaseAlias)
    THEN findFileWithExtensions(fs,
             PathResolve(n8nEditorUiSrc, <<Slice(source, Len(BaseAlias))>>))
    ELSE Null

\* resolveId(source) recording the override path on every hit
ResolveIdOverwrite(source) ==
    /\ checked < MaxChecked
    /\ checked' = checked + 1
    /\ IF OverrideProbe(source) # Null
       THEN /\ overrides' = MapSet(overrides, source, OverrideProbe(source))
            /\ resolved' = OverrideProbe(source)
       ELSE /\ resolved' = BaseProbe(source)
            /\ UNCHANGED overrides
    /\ lastCall' = [source |-> source, fs |-> fs, resolved |-> resolved',
                    repeated |-> (lastCall.source = source /\ lastCall.fs = fs)]
    /\ UNCHANGED <<aliasPrefix, fs, manifest, built, configResult>>

\* resolveId(source)
ResolveId(source) ==
    /\ checked < MaxChecked
    /\ checked' = checked + 1
    /\ IF OverrideProbe(source) # Null
       THEN /\ overrides' = IF source \in DOMAIN overrides
                            THEN overrides
                            ELSE MapSet(overrides, source, OverrideProbe(source))
            /\ resolved' = OverrideProbe(source)
       ELSE /\ resolved' = BaseProbe(source)
            /\ UNCHANGED overrides
    /\ lastCall' = [source |-> source, fs |-> fs, resolved |-> resolved',
                    repeated |-> (lastCall.source = source /\ lastCall.fs = fs)]
    /\ UNCHANGED <<aliasPrefix, fs, manifest, built, configResult>>

\* macaquesFrontend(options): a new plugin instance with fresh stats.  The
\* files stay; the model keeps of them those the new instance can probe
MacaquesFrontend(prefix) ==
    /\ aliasPrefix' = prefix
    /\ overrides' = EmptyMap
    /\ checked' = 0
    /\ resolved' = Null
    /\ lastCall' = NoCall
    /\ manifest' = NoManifest
    /\ built' = NotBuilt
    /\ configResult' = NotConfigured
    /\ fs' = fs \cap FsUniverse(prefix)

\* loadManifest without the try block around read and parse
loadManifestNoCatch(file) ==
    IF ~file.exists
    THEN [value |-> NoManifest, logged |-> FALSE, threw |-> FALSE]
    ELSE IF ~file.parses
    THEN [value |-> NoManifest, logged |-> FALSE, threw |-> TRUE]
    ELSE [value |-> file.json, logged |-> FALSE, threw |-> FALSE]

\* loadManifest(manifestPath) on a manifest file: what it returns, whether it
\* logged the parse failure, whether it raised
loadManifest(file) ==
    IF ~file.exists
    THEN [value |-> NoManifest, logged |-> FALSE, threw |-> FALSE]
    ELSE IF ~file.parses
    THEN [value |-> NoManifest, logged |-> TRUE, threw |-> FALSE]
    ELSE [value |-> file.json, logged |-> FALSE, threw |-> FALSE]

\* configResolved(resolvedConfig) that logs the patch count only of a
\* manifest that has a patches list
ConfigResolvedGuarded(file) ==
    /\ ~configResult.called
    /\ manifest' = loadManifest(file).value
    /\ configResult' = [called |-> TRUE, file |-> file,
                        parseError |-> loadManifest(file).logged,
                        loadThrew |-> loadManifest(file).threw,
                        threw |-> loadManifest(file).threw]
    /\ UNCHANGED <<aliasPrefix, fs, overrides, checked, resolved, lastCall, built>>

\* configResolved(resolvedConfig), which the build calls once on a plugin
\* instance, before buildStart: the manifest file is loaded and assigned; the
\* log line reads manifest.patches.length, a TypeError on a manifest without
\* a patches list
ConfigResolved(file) ==
    /\ ~configResult.called
    /\ manifest' = loadManifest(file).value
    /\ configResult' = [called |-> TRUE, file |-> file,
                        parseError |-> loadManifest(file).logged,
                        loadThrew |-> loadManifest(file).threw,
                        threw |-> \/ loadManifest(file).threw
                                  \/ (loadManifest(file).value.present
                                         /\ ~loadManifest(file).value.hasPatches)]
    /\ UNCHANGED <<aliasPrefix, fs, overrides, checked, resolved, lastCall, built>>

\* the predicate of manifest.patches.filter in buildStart
IsFrontendPatch(p) == p.type = "replace" \/ p.type = "extend"

\* a loop body that counts a patch once however many of its files are missing
BuildCheckOncePerPatch(acc, patch) ==
    LET baseFile == findFileWithExtensions(fs,
                        PathResolve(n8nEditorUiSrc,
                                    <<Replace(patch.path, Append(aliasPrefix, "/"))>>))
        overrideFile == findFileWithExtensions(fs,
                            PathResolve(frontendExtensionsDir, <<patch.path>>))
    IN  IF baseFile = Null
        THEN [issues |-> acc.issues + 1,
              warnings |-> Append(acc.warnings, Warning("base", patch.path, 0))]
        ELSE IF overrideFile = Null
        THEN [issues |-> acc.issues + 1,
              warnings |-> Append(acc.warnings, Warning("override", patch.path, 0))]
        ELSE acc

\* the check of one patch with the base path taken from the patch path as it
\* stands, alias prefix included
BuildCheckKeepPrefix(acc, patch) ==
    LET baseFile == findFileWithExtensions(fs, PathResolve(n8nEditorUiSrc, <<patch.path>>))
        overrideFile == findFileWithExtensions(fs,
                            PathResolve(frontendExtensionsDir, <<patch.path>>))
        afterBase == IF baseFile = Null
                     THEN [issues |-> acc.issues + 1,
                           warnings |-> Append(acc.warnings, Warning("base", patch.path, 0))]
                     ELSE acc
    IN  IF overrideFile = Null
        THEN [issues |-> afterBase.issues + 1,
              warnings |-> Append(afterBase.warnings, Warning("override", patch.path, 0))]
        ELSE afterBase

\* the body of the for-loop of buildStart for one patch: the base check, then
\* the override check
BuildCheck(acc, patch) ==
    LET baseFile == findFileWithExtensions(fs,
                        PathResolve(n8nEditorUiSrc,
                                    <<Replace(patch.path, Append(aliasPrefix, "/"))>>))
        overrideFile == findFileWithExtensions(fs,
                            PathResolve(frontendExtensionsDir, <<patch.path>>))
        afterBase == IF baseFile = Null
                     THEN [issues |-> acc.issues + 1,
                           warnings |-> Append(acc.warnings, Warning("base", patch.path, 0))]
                     ELSE acc
    IN  IF overrideFile = Null
        THEN [issues |-> afterBase.issues + 1,
              warnings |-> Append(afterBase.warnings, Warning("override", patch.path, 0))]
        ELSE afterBase

\* the for-loop of buildStart over the patches ps from patch i on
RECURSIVE BuildLoop(_, _, _)
BuildLoop(ps, i, acc) ==
    IF i > Len(ps) THEN acc ELSE BuildLoop(ps, i + 1, BuildCheck(acc, ps[i]))

\* buildStart(), which the build calls after configResolved has returned
BuildStart ==
    /\ UNCHANGED <<aliasPrefix, fs, overrides, checked, resolved, lastCall, manifest,
                   configResult>>
    /\ configResult.called
    /\ ~configResult.threw
    /\ built' =
          IF ~manifest.present
          THEN [ran |-> TRUE, checkedPatches |-> <<>>, issues |-> 0, warnings |-> <<>>,
                threw |-> FALSE]
          ELSE LET frontendPatches == SelectSeq(manifest.patches, IsFrontendPatch)
                   end == BuildLoop(frontendPatches, 1, [issues |-> 0, warnings |-> <<>>])
               IN  [ran |-> TRUE,
                    checkedPatches |-> frontendPatches,
                    issues |-> end.issues,
                    warnings |-> IF end.issues > 0
                                 THEN Append(end.warnings, Warning("summary", Null, end.issues))
                                 ELSE end.warnings,
                    threw |-> FALSE]

\* the environment creates or deletes a file
FsChange(path) ==
    /\ path \in FsUniverse(aliasPrefix)
    /\ fs' = IF path \in fs THEN fs \ {path} ELSE fs \cup {path}
    /\ UNCHANGED <<aliasPrefix, overrides, checked, resolved, lastCall, manifest, built,
                   configResult>>

(***************************************************************************)
(* Hot update (frontend/index.ts)                                          *)
(***************************************************************************)
\* no handleHotUpdate call made yet
NoHot == [called |-> FALSE, file |-> Null, logged |-> FALSE, fullReload |-> FALSE,
          returned |-> "undefined"]

\* the changed files the dev server reports to a plugin instance: the files
\* of the instance's universe and a.ts, a.vue of the directory
\* <extensions>/frontend-old next to the frontend extensions directory
HotFiles(prefix) ==
    FsUniverse(prefix)
        \cup {<<"/", "ext", "/", "frontend", "-old", "/", "a", e>> : e \in {".ts", ".vue"}}

\* String.prototype.endsWith(suffix) for a suffix that is one token
EndsWith(s, token) == s # <<>> /\ s[Len(s)] = token

\* handleHotUpdate that sends the full reload for every extension file
HandleHotUpdateAlways(file) ==
    /\ hot' = IF StartsWith(file, frontendExtensionsDir)
              THEN [called |-> TRUE, file |-> file, logged |-> TRUE, fullReload |-> TRUE,
                    returned |-> "empty"]
              ELSE [called |-> TRUE, file |-> file, logged |-> FALSE, fullReload |-> FALSE,
                    returned |-> "undefined"]
    /\ UNCHANGED <<boot, imported>>

\* handleHotUpdate({ file, server }): 'empty' is the returned [], 'undefined'
\* the return without a value that leaves the update to the dev server
HandleHotUpdate(file) ==
    /\ hot' = IF StartsWith(file, frontendExtensionsDir)
              THEN IF ~EndsWith(file, ".vue")
                   THEN [called |-> TRUE, file |-> file, logged |-> TRUE, fullReload |-> TRUE,
                         returned |-> "empty"]
                   ELSE [called |-> TRUE, file |-> file, logged |-> TRUE,
                         fullReload |-> FALSE, returned |-> "undefined"]
              ELSE [called |-> TRUE, file |-> file, logged |-> FALSE, fullReload |-> FALSE,
                    returned |-> "undefined"]
    /\ UNCHANGED <<boot, imported>>

(***************************************************************************)
(* Backend bootstrap (backend/bootstrap.ts)                                *)
(***************************************************************************)
\* resolve(extensionsDir, 'backend')
backendExtensionsDir == <<"/", "ext", "/", "backend">>

\* the extension files the default patterns find: two service extensions, a
\* module, a controller
ServiceFile1 == backendExtensionsDir \o <<"/", "services", "/", "s1", ".ext", ".ts">>
ServiceFile2 == backendExtensionsDir \o <<"/", "services", "/", "s2", ".ext", ".ts">>
ModuleFile == backendExtensionsDir \o <<"/", "modules", "/", "m", "/", "index", ".ts">>
ControllerFile == backendExtensionsDir \o <<"/", "controllers", "/", "c", ".controller", ".ts">>

\* the paths that come and go between bootstrap calls: the backend
\* extensions directory itself and the extension files
BootFsUniverse ==
    {backendExtensionsDir, ServiceFile1, ServiceFile2, ModuleFile, ControllerFile}

\* existsSync(dir) for a directory: it is there itself or holds a file
DirExists(files, dir) ==
    dir \in files \/ \E f \in files : StartsWith(f, Append(dir, "/"))

\* glob(patterns, {cwd, absolute: true}): of the files the patterns can match,
\* those that exist, in the order the glob reports them
Discover(files, candidates) == SelectSeq(candidates, LAMBDA f : f \in files)

\* the files bootstrap imports, in import order: services, modules, controllers
ImportQueue(files) ==
    Discover(files, <<ServiceFile1, ServiceFile2>>)
        \o Discover(files, <<ModuleFile>>)
        \o Discover(files, <<ControllerFile>>)

NoPatch == [target |-> NoTarget, factory |-> "none"]

\* the patch an extension file registers when it is evaluated (the
\* controller registers none)
RegistersAtLoad(file) ==
    CASE file = ServiceFile1 -> [target |-> "SvcA", factory |-> "f1"]
      [] file = ServiceFile2 -> [target |-> "SvcA", factory |-> "f2"]
      [] file = ModuleFile -> [target |-> "SvcB", factory |-> "f3"]
      [] OTHER -> NoPatch

\* the verbose option and the backend manifests a bootstrap call meets: none,
\* an object without a patches list, an empty manifest
BootManifests == {NoManifest, ShapelessManifest, Manifest(<<>>)}

\* no bootstrap() or initializeExtensions() call made yet.  phase: idle,
\* loading (inside bootstrap), done (the call returned), failed (it rejected);
\* queue: the files still to import; discovered: the files the globs found;
\* loaded: the files imported by this call; registered: the patches their
\* evaluation registered; applyCalled: the call has invoked applyPatches
NoBoot == [phase |-> "idle", kind |-> "none", queue |-> <<>>, discovered |-> <<>>,
           loaded |-> <<>>, registered |-> <<>>, applyCalled |-> FALSE]

\* the module cache of a fresh process
NoImports == [ok |-> {}, errored |-> {}]

\* the host may call into the backend: it has made no call yet, or its
\* bootstrap() has ended and initializeExtensions() is still to come
BetweenCalls ==
    \/ boot.phase = "idle"
    \/ (boot.phase \in {"done", "failed"} /\ boot.kind = "bootstrap")

\* the frame of the registry variables for a step that calls no registry
\* operation
RegistryUntouched == UNCHANGED regVars

\* bootstrap(options) up to its first import, called by itself
\* (kind 'bootstrap') or from initializeExtensions: without the backend
\* extensions directory it returns at once with nothing discovered; the log
\* line of a verbose call reads manifest.patches.length, a TypeError on a
\* manifest without a patches list
StartBootstrap(kind, verbose, m) ==
    /\ BetweenCalls
    /\ boot.phase = "idle" \/ kind = "initializeExtensions"
    /\ boot' = IF ~DirExists(fs, backendExtensionsDir)
               THEN [NoBoot EXCEPT !.phase = "loading", !.kind = kind]
               ELSE IF verbose /\ m.present /\ ~m.hasPatches
               THEN [NoBoot EXCEPT !.phase = "failed", !.kind = kind]
               ELSE [NoBoot EXCEPT !.phase = "loading", !.kind = kind,
                                   !.queue = ImportQueue(fs),
                                   !.discovered = ImportQueue(fs)]
    /\ RegistryUntouched
    /\ UNCHANGED <<fs, imported>>

\* await import(file) of the next file: a file the process has evaluated is
\* not evaluated again; the evaluation of a file runs its registration, and
\* an exception of register() rejects the import and with it bootstrap
LoadNext ==
    /\ boot.phase = "loading"
    /\ boot.queue # <<>>
    /\ LET file == Head(boot.queue)
           patch == RegistersAtLoad(file)
       IN  IF file \in imported.errored
           THEN /\ boot' = [boot EXCEPT !.phase = "failed"]
                /\ RegistryUntouched
                /\ UNCHANGED imported
           ELSE IF file \in imported.ok \/ patch = NoPatch
           THEN /\ boot' = [boot EXCEPT !.queue = Tail(boot.queue),
                                        !.loaded = Append(boot.loaded, file)]
                /\ imported' = [imported EXCEPT !.ok = imported.ok \cup {file}]
                /\ RegistryUntouched
           ELSE /\ Register(patch)
                /\ boot' = IF result'.threw
                           THEN [boot EXCEPT !.phase = "failed"]
                           ELSE [boot EXCEPT !.queue = Tail(boot.queue),
                                             !.loaded = Append(boot.loaded, file),
                                             !.registered = Append(boot.registered, patch)]
                /\ imported' = IF result'.threw
                               THEN [imported EXCEPT !.errored = imported.errored \cup {file}]
                               ELSE [imported EXCEPT !.ok = imported.ok \cup {file}]
    /\ UNCHANGED fs

\* the end of a bootstrap() called by itself: the counts are returned
FinishBootstrap ==
    /\ boot.phase = "loading"
    /\ boot.kind = "bootstrap"
    /\ boot.queue = <<>>
    /\ boot' = [boot EXCEPT !.phase = "done"]
    /\ RegistryUntouched
    /\ UNCHANGED <<fs, imported>>

\* initializeExtensions calling applyPatches while files are still to import
ApplyAfterBootstrapEarly(fail) ==
    /\ boot.phase = "loading"
    /\ boot.kind = "initializeExtensions"
    /\ ApplyPatches(fail)
    /\ boot' = [boot EXCEPT !.phase = IF result'.threw THEN "failed" ELSE "done",
                            !.applyCalled = TRUE]
    /\ UNCHANGED <<fs, imported>>

\* initializeExtensions past `await bootstrap(options)`:
\* applyPatches(container), then the result is returned
ApplyAfterBootstrap(fail) ==
    /\ boot.phase = "loading"
    /\ boot.kind = "initializeExtensions"
    /\ boot.queue = <<>>
    /\ ApplyPatches(fail)
    /\ boot' = [boot EXCEPT !.phase = IF result'.threw THEN "failed" ELSE "done",
                            !.applyCalled = TRUE]
    /\ UNCHANGED <<fs, imported>>

\* between calls the environment creates or deletes an extension file or the
\* directory
BootFsChange(path) ==
    /\ BetweenCalls
    /\ fs' = IF path \in fs THEN fs \ {path} ELSE fs \cup {path}
    /\ RegistryUntouched
    /\ UNCHANGED <<boot, imported>>

\* between calls the host resets the registry
BootReset ==
    /\ BetweenCalls
    /\ Reset
    /\ UNCHANGED <<fs, boot, imported>>

\* between calls the host applies the patches itself, as after a bootstrap()
\* called by itself
BootApply(fail) ==
    /\ BetweenCalls
    /\ ApplyPatches(fail)
    /\ UNCHANGED <<fs, boot, imported>>

(***************************************************************************)
(* Patch validator (cli/validate.ts)                                       *)
(***************************************************************************)
\* the validator process has not exited
NotExited == -1

\* the run before this one did not have its undocumented files documented
NoPrevious == [documented |-> {}, exitCode |-> NotExited]

\* the manifest entry a result for an undocumented file carries
ReplaceEntry(file) == Entry(file, "replace")

\* resolve(extensionsDir, 'backend')
backendExtensions == <<"/", "ext", "/", "backend">>

\* the entries of the backend manifests read: svc.ts as a service extension
\* and a controller, 'svc' (no file of that exact name) as a module and a
\* hook, and a replace entry
BackendEntries ==
    {Entry(<<"svc", ".ts">>, "service_extension"),
     Entry(<<"svc", ".ts">>, "new_controller"),
     Entry(<<"svc">>, "module"),
     Entry(<<"svc">>, "hook"),
     Entry(<<"@", "/", "a">>, "replace")}

\* the frontend manifest entries of a validator run: those of the build and
\* one whose path is the path of the override a.ts with '@/' put before it
CliFrontendEntries ==
    FrontendEntries \cup {Entry(<<"@", "/", "@", "/", "a", ".ts">>, "replace")}

\* what loadManifest can return for the frontend manifest file of a run
CliFrontendManifests ==
    {NoManifest, ShapelessManifest}
        \cup {Manifest(ps) : ps \in SeqsUpTo(CliFrontendEntries, MaxEntries)}

\* what loadManifest can return for the backend manifest file
BackendManifests ==
    {NoManifest} \cup {Manifest(ps) : ps \in SeqsUpTo(BackendEntries, MaxBackendEntries)}

\* the files that come and go before a validator run: the override
\* @/a.ts and its test @/a.test.ts, the n8n source a.ts, the backend
\* extension svc.ts
CliFsUniverse ==
    {frontendExtensionsDir \o <<"/", "@", "/", "a", ".ts">>,
     frontendExtensionsDir \o <<"/", "@", "/", "a", ".test", ".ts">>,
     n8nEditorUiSrc \o <<"/", "a", ".ts">>,
     backendExtensions \o <<"/", "svc", ".ts">>}

\* a ValidationResult; message "none" and basePath Null: field absent
ValidationResult(patch, valid, status, message, basePath) ==
    [patch |-> patch, valid |-> valid, status |-> status, message |-> message,
     basePath |-> basePath]

\* patch.path.replace(/^@\//, '')
StripAtSlash(path) ==
    IF StartsWith(path, <<"@", "/">>) THEN Slice(path, 2) ELSE path

\* a frontend check that looks for the override file only
validateFrontendPatchOverrideOnly(files, patch) ==
    LET overridePath == PathResolve(frontendExtensionsDir, <<patch.path>>)
        overrideFile == findFileWithExtensions(files, overridePath)
    IN  IF overrideFile = Null
        THEN ValidationResult(patch, FALSE, "missing", "Override file not found", overridePath)
        ELSE ValidationResult(patch, TRUE, "ok", "none", overrideFile)

\* a frontend check that looks for the base file first
validateFrontendPatchBaseFirst(files, patch) ==
    LET overridePath == PathResolve(frontendExtensionsDir, <<patch.path>>)
        overrideFile == findFileWithExtensions(files, overridePath)
        basePath == PathResolve(n8nEditorUiSrc, <<StripAtSlash(patch.path)>>)
        baseFile == findFileWithExtensions(files, basePath)
    IN  IF baseFile = Null
        THEN ValidationResult(patch, FALSE, "missing",
                              "Base file not found in n8n - may have been moved or deleted",
                              basePath)
        ELSE IF overrideFile = Null
        THEN ValidationResult(patch, FALSE, "missing", "Override file not found", overridePath)
        ELSE ValidationResult(patch, TRUE, "ok", "none", baseFile)

\* a frontend check that passes an entry whose base file is missing
validateFrontendPatchLenient(files, patch) ==
    LET overridePath == PathResolve(frontendExtensionsDir, <<patch.path>>)
        overrideFile == findFileWithExtensions(files, overridePath)
        basePath == PathResolve(n8nEditorUiSrc, <<StripAtSlash(patch.path)>>)
        baseFile == findFileWithExtensions(files, basePath)
    IN  IF overrideFile = Null
        THEN ValidationResult(patch, FALSE, "missing", "Override file not found", overridePath)
        ELSE IF baseFile = Null
        THEN ValidationResult(patch, TRUE, "ok",
                              "Base file not found in n8n - may have been moved or deleted",
                              basePath)
        ELSE ValidationResult(patch, TRUE, "ok", "none", baseFile)

\* validateFrontendPatch(patch, extensionsDir, n8nSrc)
validateFrontendPatch(files, patch) ==
    LET overridePath == PathResolve(frontendExtensionsDir, <<patch.path>>)
        overrideFile == findFileWithExtensions(files, overridePath)
        basePath == PathResolve(n8nEditorUiSrc, <<StripAtSlash(patch.path)>>)
        baseFile == findFileWithExtensions(files, basePath)
    IN  IF overrideFile = Null
        THEN ValidationResult(patch, FALSE, "missing", "Override file not found", overridePath)
        ELSE IF baseFile = Null
        THEN ValidationResult(patch, FALSE, "missing",
                              "Base file not found in n8n - may have been moved or deleted",
                              basePath)
        ELSE ValidationResult(patch, TRUE, "ok", "none", baseFile)

\* a backend check that looks for the file of an entry of any type
validateBackendPatchAllChecked(files, patch) ==
    LET file == PathResolve(backendExtensions, <<patch.path>>)
    IN  IF ~ExistsSync(files, file)
        THEN ValidationResult(patch, FALSE, "missing", "File not found", file)
        ELSE ValidationResult(patch, TRUE, "ok", "none", file)

\* a backend check that probes the suffix list for the extension file
validateBackendPatchProbing(files, patch) ==
    LET file == PathResolve(backendExtensions, <<patch.path>>)
        found == findFileWithExtensions(files, file)
    IN  IF patch.type \in {"service_extension", "new_controller", "module"}
        THEN IF found = Null
             THEN ValidationResult(patch, FALSE, "missing", "File not found", file)
             ELSE ValidationResult(patch, TRUE, "ok", "none", found)
        ELSE ValidationResult(patch, TRUE, "ok", "none", Null)

\* a backend check that reports a missing file as an error without its path
validateBackendPatchError(files, patch) ==
    LET file == PathResolve(backendExtensions, <<patch.path>>)
    IN  IF patch.type \in {"service_extension", "new_controller", "module"}
        THEN IF ~ExistsSync(files, file)
             THEN ValidationResult(patch, FALSE, "error", "File not found", Null)
             ELSE ValidationResult(patch, TRUE, "ok", "none", file)
        ELSE ValidationResult(patch, TRUE, "ok", "none", Null)

\* validateBackendPatch(patch, extensionsDir, n8nSrc)
validateBackendPatch(files, patch) ==
    LET file == PathResolve(backendExtensions, <<patch.path>>)
    IN  IF patch.type = "service_extension"
        THEN IF ~ExistsSync(files, file)
             THEN ValidationResult(patch, FALSE, "missing", "Extension file not found", file)
             ELSE ValidationResult(patch, TRUE, "ok", "none", file)
        ELSE IF patch.type = "new_controller" \/ patch.type = "module"
        THEN IF ~ExistsSync(files, file)
             THEN ValidationResult(patch, FALSE, "missing", "File not found", file)
             ELSE ValidationResult(patch, TRUE, "ok", "none", file)
        ELSE ValidationResult(patch, TRUE, "ok", "none", Null)

\* fast-glob over cwd with the patterns **/*.vue, **/*.ts, **/*.tsx and the
\* ignore list **/node_modules/**, **/*.test.*, **/*.spec.*: the paths
\* relative to cwd of the files that match.  A cwd that does not exist and an
\* empty one both yield no file, as does the existsSync guard before the call
Glob(files, cwd) ==
    {Slice(path, Len(cwd) + 1) :
        path \in {f \in files :
                     /\ StartsWith(f, Append(cwd, "/"))
                     /\ f[Len(f)] \in {".vue", ".ts", ".tsx"}
                     /\ \A k \in DOMAIN f : f[k] \notin {"node_modules", ".test", ".spec"}}}

\* the normalisation loop of findUndocumentedPatches for the prefix '@/**'
Normalized(file) ==
    IF StartsWith(file, <<"@">>) THEN <<"@", "/">> \o file ELSE file

\* the elements of a set as a sequence, in the order the glob reports them
RECURSIVE SetToSeq(_)
SetToSeq(S) ==
    IF S = {}
    THEN <<>>
    ELSE LET x == CHOOSE y \in S : TRUE IN <<x>> \o SetToSeq(S \ {x})

\* a scan that looks up the normalised path alone
findUndocumentedPatchesNormalizedOnly(files, m) ==
    LET documentedPaths == {m.patches[i].path : i \in DOMAIN m.patches}
    IN  SetToSeq({file \in Glob(files, frontendExtensionsDir) :
                     Normalized(file) \notin documentedPaths})

\* findUndocumentedPatches(extensionsDir, manifest, patterns, prefixes)
findUndocumentedPatches(files, m) ==
    LET documentedPaths == {m.patches[i].path : i \in DOMAIN m.patches}
    IN  SetToSeq({file \in Glob(files, frontendExtensionsDir) :
                     Normalized(file) \notin documentedPaths /\ file \notin documentedPaths})

\* Array.prototype.map
Map(seq, F(_)) == [i \in DOMAIN seq |-> F(seq[i])]

\* an extra result that reports the file as missing
UndocumentedResultMissing(file) ==
    ValidationResult(Entry(file, "replace"), FALSE, "missing",
                     "Patch exists but is not documented in manifest", Null)

\* the result validatePatches pushes for an undocumented file
UndocumentedResult(file) ==
    ValidationResult(Entry(file, "replace"), TRUE, "ok",
                     "Patch exists but is not documented in manifest", Null)

\* validatePatches(options)
validatePatches(files, fm, bm) ==
    LET Frontend(patch) == validateFrontendPatch(files, patch)
        Backend(patch) == validateBackendPatch(files, patch)
    IN  Map(fm.patches, Frontend)
            \o Map(bm.patches, Backend)
            \o Map(findUndocumentedPatches(files, fm), UndocumentedResult)

\* validatePatches(options) raises: iterating manifest.patches of a manifest
\* that has none is a TypeError
validatePatchesThrows(fm, bm) ==
    \/ (fm.present /\ ~fm.hasPatches)
    \/ (bm.present /\ ~bm.hasPatches)

\* a test that holds when every result is invalid
HasErrorsEvery(rs) == \A i \in DOMAIN rs : ~rs[i].valid

\* results.some((r) => !r.valid)
HasErrors(rs) == \E i \in DOMAIN rs : ~rs[i].valid

\* main(): validate, print, exit; the catch handler of main() exits with 1
Main ==
    /\ exitCode = NotExited
    /\ IF validatePatchesThrows(frontendManifest, backendManifest)
       THEN /\ results' = <<>>
            /\ exitCode' = 1
       ELSE /\ results' = validatePatches(fs, frontendManifest, backendManifest)
            /\ exitCode' = IF HasErrors(validatePatches(fs, frontendManifest, backendManifest))
                           THEN 1
                           ELSE 0
    /\ UNCHANGED <<fs, frontendManifest, backendManifest, previous>>

\* the validator is started again
NewProcess ==
    /\ exitCode # NotExited
    /\ results' = <<>>
    /\ exitCode' = NotExited
    /\ previous' = NoPrevious
    /\ UNCHANGED <<fs, frontendManifest, backendManifest>>

\* after a run that reported undocumented files the user adds an entry for
\* every one of them to the frontend manifest, as the results give them (path
\* and type 'replace'), creating the manifest if there was none, and starts
\* the validator again
DocumentUndocumented ==
    /\ exitCode # NotExited
    /\ ~validatePatchesThrows(frontendManifest, backendManifest)
    /\ findUndocumentedPatches(fs, frontendManifest) # <<>>
    /\ frontendManifest' =
          Manifest(frontendManifest.patches
                       \o Map(findUndocumentedPatches(fs, frontendManifest), ReplaceEntry))
    /\ previous' = [documented |-> {findUndocumentedPatches(fs, frontendManifest)[k] :
                                       k \in DOMAIN findUndocumentedPatches(fs, frontendManifest)},
                    exitCode |-> exitCode]
    /\ results' = <<>>
    /\ exitCode' = NotExited
    /\ UNCHANGED <<fs, backendManifest>>

\* before a run the environment creates or deletes a file
CliFsChange(path) ==
    /\ exitCode = NotExited
    /\ fs' = IF path \in fs THEN fs \ {path} ELSE fs \cup {path}
    /\ previous' = NoPrevious
    /\ UNCHANGED <<frontendManifest, backendManifest, results, exitCode>>

\* before a run the environment writes or removes the frontend manifest
WriteFrontendManifest(m) ==
    /\ exitCode = NotExited
    /\ frontendManifest' = m
    /\ previous' = NoPrevious
    /\ UNCHANGED <<fs, backendManifest, results, exitCode>>

\* before a run the environment writes or removes the backend manifest
WriteBackendManifest(m) ==
    /\ exitCode = NotExited
    /\ backendManifest' = m
    /\ previous' = NoPrevious
    /\ UNCHANGED <<fs, frontendManifest, results, exitCode>>

(***************************************************************************)
(* Specifications                                                          *)
(***************************************************************************)
\* a new registry; no plugin instance at work
RegInit ==
    /\ patches = <<>>
    /\ applied = FALSE
    /\ container = [t \in Targets |-> <<>>]
    /\ result = Returned("new")
    /\ calls = <<>>
    /\ logs = <<>>
    /\ succeededApply = FALSE
    /\ failedApply = FALSE
    /\ factoryCalls = <<>>
    /\ sinceReset = <<>>
    /\ fault = NoFail
    /\ aliasPrefix = <<"@">>
    /\ fs = {}
    /\ overrides = EmptyMap
    /\ checked = 0
    /\ resolved = Null
    /\ lastCall = NoCall
    /\ manifest = NoManifest
    /\ built = NotBuilt
    /\ configResult = NotConfigured
    /\ frontendManifest = NoManifest
    /\ backendManifest = NoManifest
    /\ results = <<>>
    /\ exitCode = NotExited
    /\ previous = NoPrevious
    /\ hot = NoHot
    /\ boot = NoBoot
    /\ imported = NoImports

RegisterStep == \E patch \in PatchSet : Register(patch)

ApplyStep == \E fail \in FailChoices : ApplyPatches(fail)

RegNext ==
    \/ RegisterStep /\ UNCHANGED <<feVars, cliVars, hostVars>>
    \/ ApplyStep /\ UNCHANGED <<feVars, cliVars, hostVars>>
    \/ GetPatches /\ UNCHANGED <<feVars, cliVars, hostVars>>
    \/ IsApplied /\ UNCHANGED <<feVars, cliVars, hostVars>>
    \/ Reset /\ UNCHANGED <<feVars, cliVars, hostVars>>

\* the patch registry driven by its callers
RegistrySpec == RegInit /\ [][RegNext]_vars

ResolveStep == \E source \in Specifiers : ResolveId(source)

NewPluginStep == \E prefix \in AliasPrefixes : MacaquesFrontend(prefix)

FsChangeStep == \E path \in FsUniverse(aliasPrefix) : FsChange(path)

\* a plugin instance with the default options in an empty extensions
\* directory; the registry untouched
FeInit ==
    /\ aliasPrefix = <<"@">>
    /\ fs = {}
    /\ overrides = EmptyMap
    /\ checked = 0
    /\ resolved = Null
    /\ lastCall = NoCall
    /\ manifest = NoManifest
    /\ built = NotBuilt
    /\ configResult = NotConfigured
    /\ frontendManifest = NoManifest
    /\ backendManifest = NoManifest
    /\ results = <<>>
    /\ exitCode = NotExited
    /\ previous = NoPrevious
    /\ hot = NoHot
    /\ boot = NoBoot
    /\ imported = NoImports
    /\ patches = <<>>
    /\ applied = FALSE
    /\ container = [t \in Targets |-> <<>>]
    /\ result = Returned("new")
    /\ calls = <<>>
    /\ logs = <<>>
    /\ succeededApply = FALSE
    /\ failedApply = FALSE
    /\ factoryCalls = <<>>
    /\ sinceReset = <<>>
    /\ fault = NoFail

FeNext ==
    \/ ResolveStep /\ UNCHANGED <<regVars, cliVars, hostVars>>
    \/ NewPluginStep /\ UNCHANGED <<regVars, cliVars, hostVars>>
    \/ FsChangeStep /\ UNCHANGED <<regVars, cliVars, hostVars>>

\* the overlay resolution hook driven by the build pipeline
ResolverSpec == FeInit /\ [][FeNext]_vars

ConfigResolvedStep == \E file \in ManifestFiles : ConfigResolved(file)

BuildNext ==
    \/ NewPluginStep /\ UNCHANGED <<regVars, cliVars, hostVars>>
    \/ ConfigResolvedStep /\ UNCHANGED <<regVars, cliVars, hostVars>>
    \/ BuildStart /\ UNCHANGED <<regVars, cliVars, hostVars>>
    \/ FsChangeStep /\ UNCHANGED <<regVars, cliVars, hostVars>>

\* the plugin's manifest check driven by the build pipeline
BuildSpec == FeInit /\ [][BuildNext]_vars

\* no plugin instance at work, no registry call made
plainVars == <<regVars, aliasPrefix, overrides, checked, resolved, lastCall, manifest, built,
               configResult, hostVars>>

CliFsChangeStep == \E path \in CliFsUniverse : CliFsChange(path)

WriteFrontendManifestStep == \E m \in CliFrontendManifests : WriteFrontendManifest(m)

WriteBackendManifestStep ==
    \E m \in BackendManifests \cup {ShapelessManifest} : WriteBackendManifest(m)

CliNext ==
    \/ CliFsChangeStep /\ UNCHANGED plainVars
    \/ WriteFrontendManifestStep /\ UNCHANGED plainVars
    \/ WriteBackendManifestStep /\ UNCHANGED plainVars
    \/ Main /\ UNCHANGED plainVars
    \/ NewProcess /\ UNCHANGED plainVars
    \/ DocumentUndocumented /\ UNCHANGED plainVars

\* the validator run on a prepared extensions directory
CliSpec == FeInit /\ [][CliNext]_vars

HotUpdateStep == \E file \in HotFiles(aliasPrefix) : HandleHotUpdate(file)

HotNext ==
    \/ NewPluginStep /\ hot' = NoHot /\ UNCHANGED <<regVars, cliVars, boot, imported>>
    \/ FsChangeStep /\ UNCHANGED <<regVars, cliVars, hostVars>>
    \/ HotUpdateStep /\ UNCHANGED <<regVars, feVars, cliVars>>

\* a plugin instance in a dev server that reports changed files
HotSpec == FeInit /\ [][HotNext]_vars

bootFrame == <<aliasPrefix, overrides, checked, resolved, lastCall, manifest, built,
               configResult, cliVars, hot>>

StartBootstrapStep ==
    \E kind \in {"bootstrap", "initializeExtensions"}, verbose \in BOOLEAN, m \in BootManifests :
        StartBootstrap(kind, verbose, m)

ApplyAfterBootstrapStep == \E fail \in FailChoices : ApplyAfterBootstrap(fail)

BootFsChangeStep == \E path \in BootFsUniverse : BootFsChange(path)

BootApplyStep == \E fail \in FailChoices : BootApply(fail)

BootNext ==
    \/ StartBootstrapStep /\ UNCHANGED bootFrame
    \/ LoadNext /\ UNCHANGED bootFrame
    \/ FinishBootstrap /\ UNCHANGED bootFrame
    \/ ApplyAfterBootstrapStep /\ UNCHANGED bootFrame
    \/ BootFsChangeStep /\ UNCHANGED bootFrame
    \/ BootReset /\ UNCHANGED bootFrame
    \/ BootApplyStep /\ UNCHANGED bootFrame

\* the backend bootstrap of a host process
BootSpec == FeInit /\ [][BootNext]_vars

(***************************************************************************)
(* Patch registry: properties                                              *)
(***************************************************************************)
\* the factories of the patches of ps that target t, in list order
RECURSIVE ChainFor(_, _)
ChainFor(ps, t) ==
    IF ps = <<>>
    THEN <<>>
    ELSE (IF Head(ps).target = t THEN <<Head(ps).factory>> ELSE <<>>) \o ChainFor(Tail(ps), t)

\* the instance patch i of the list finds in a container that held c when the
\* run began: c's instance wrapped by the earlier patches of the same target
OriginalFor(c, ps, i) ==
    c[ps[i].target] \o ChainFor(SubSeq(ps, 1, i - 1), ps[i].target)

\* the j-th call of a run over ps: get, factory, set of patch 1, then of patch 2, ...
CallInOrder(c, ps, j) ==
    LET i == (j + 2) \div 3
        p == ps[i]
    IN  CASE j % 3 = 1 -> GetCall(p.target)
          [] j % 3 = 2 -> FactoryCall(p.target, p.factory, OriginalFor(c, ps, i))
          [] OTHER     -> SetCall(p.target, p.factory, Append(OriginalFor(c, ps, i), p.factory))

\* the step is an applyPatches(container) call: every registry operation
\* leaves its name in result
AppliesPatches == result'.op = "applyPatches"

\* C1: with no reset since an applyPatches() ran to its end, every register()
\* call throws and leaves the patch list and the applied flag as they were.
C1_RegisterAfterApplyFails ==
    [][\A patch \in PatchSet :
          (succeededApply /\ Register(patch))
              => /\ result'.threw
                 /\ result'.error = Err("RegistrationAfterApply")
                 /\ patches' = patches
                 /\ applied' = applied]_vars

\* C1 witness: a register() call has thrown on a registry holding applied patches
C1_Witness ==
    /\ succeededApply
    /\ Len(patches) >= 1
    /\ result.threw
    /\ result.error = Err("RegistrationAfterApply")

\* C2: a run of applyPatches() calls get, factory, set for the first patch,
\* then for the second, and so on in registration order; each factory is
\* given what the earlier patches of the same target left in the container,
\* and a run that ends normally leaves every target holding its factories
\* composed in registration order.
C2_AppliesInRegistrationOrder ==
    [][(~applied /\ AppliesPatches)
          => /\ Len(calls') <= 3 * Len(patches)
             /\ \A j \in 1..Len(calls') : calls'[j] = CallInOrder(container, patches, j)
             /\ ~result'.threw
                   => /\ Len(calls') = 3 * Len(patches)
                      /\ \A t \in Targets :
                            container'[t] = container[t] \o ChainFor(patches, t)]_vars

\* C2 witness: two patches of one target were applied, f2 registered before f1
C2_Witness ==
    /\ applied
    /\ Len(calls) >= 6
    /\ patches[1] = [target |-> "SvcA", factory |-> "f2"]
    /\ patches[2] = [target |-> "SvcA", factory |-> "f1"]
    /\ container["SvcA"] = <<"f2", "f1">>

\* C3: when the get, factory or set step of patch k raises, applyPatches()
\* throws, applied stays false, the patches before k are set in the
\* container, and nothing is called for k's remaining steps or any later patch.
C3_FailFast ==
    [][(~applied /\ AppliesPatches /\ fault'.at >= 1)
          => LET k == fault'.at
                 n == CASE fault'.step = "get" -> 3 * k - 2
                        [] fault'.step = "factory" -> 3 * k - 1
                        [] OTHER -> 3 * k
             IN  /\ result'.threw
                 /\ result'.failedAt = k
                 /\ applied' = FALSE
                 /\ Len(calls') = n
                 /\ \A j \in 1..n : (j + 2) \div 3 <= k
                 /\ \A t \in Targets :
                       container'[t] = container[t] \o ChainFor(SubSeq(patches, 1, k - 1), t)
                 /\ \A j \in 1..Len(calls') : calls'[j].op = "factory" => j < 3 * k]_vars

\* C3 witness: of three patches the second one's factory raised; the first is
\* set in the container, the third one's factory was never invoked
C3_Witness ==
    /\ Len(patches) = 3
    /\ result.threw
    /\ result.failedAt = 2
    /\ result.cause = Err("FactoryError")
    /\ Len(calls) = 5
    /\ container[patches[1].target] # <<>>
    /\ ~applied

\* the patches whose factory a run called, in call order
RECURSIVE FactoriesCalled(_)
FactoriesCalled(tr) ==
    IF tr = <<>>
    THEN <<>>
    ELSE (IF Head(tr).op = "factory"
          THEN <<[target |-> Head(tr).target, factory |-> Head(tr).factory]>>
          ELSE <<>>) \o FactoriesCalled(Tail(tr))

IsPrefix(s, t) == Len(s) <= Len(t) /\ SubSeq(t, 1, Len(s)) = s

\* C4: while no applyPatches() has thrown since the last reset, every
\* registered patch's factory has been invoked not at all before, and exactly
\* once after, the applyPatches() that ran the list; an applyPatches() call on
\* an applied registry calls neither the container nor a factory and leaves
\* applied true.
C4_AppliedExactlyOnce ==
    [][/\ ~failedApply'
          => \A i \in 1..Len(patches') :
                factoryCalls'[i] = IF succeededApply' THEN 1 ELSE 0
       /\ (applied /\ AppliesPatches)
          => /\ calls' = <<>>
             /\ applied'
             /\ ~result'.threw
             /\ container' = container
             /\ factoryCalls' = factoryCalls]_vars

\* C4 witness: a second applyPatches() call returned on a registry whose two
\* or more patches were applied by the first
C4_Witness ==
    /\ succeededApply
    /\ ~failedApply
    /\ Len(patches) >= 2
    /\ calls = <<>>
    /\ logs = <<LogEntry("warn", NoTarget, 0, "none")>>

\* C5: applyPatches() on an empty patch list makes no call, sets applied and
\* reports zero patches; every applyPatches() that ends normally on a registry
\* not yet applied reports the length of the patch list.
C5_EmptyApplySucceeds ==
    [][(~applied /\ AppliesPatches)
          => /\ patches = <<>>
                   => /\ ~result'.threw
                      /\ calls' = <<>>
                      /\ applied'
                      /\ logs' = <<LogEntry("success", NoTarget, 0, "none")>>
             /\ ~result'.threw
                   => /\ applied'
                      /\ logs'[Len(logs')] = LogEntry("success", NoTarget, Len(patches), "none")]_vars

\* C5 witness: applyPatches() has run on an empty list
C5_Witness ==
    /\ patches = <<>>
    /\ applied
    /\ logs = <<LogEntry("success", NoTarget, 0, "none")>>

\* C6 as stated: the error applyPatches() throws wraps the exception raised by
\* get, factory or set and names the failing patch's target.
C6_ThrowsWrappedError ==
    (result.threw /\ result.failedAt >= 1)
        => /\ result.error # result.cause
           /\ result.error.targetId = patches[result.failedAt].target

\* C6: the error applyPatches() throws is the very exception raised by get,
\* factory or set, which names no target; the failing patch's target is named
\* only in the error message logged before the rethrow.
C6_RethrowsUnderlyingError ==
    (result.threw /\ result.failedAt >= 1)
        => /\ result.error = result.cause
           /\ result.error.targetId = NoTarget
           /\ logs[Len(logs)] = LogEntry("error", patches[result.failedAt].target, 0,
                                          result.cause.name)

\* C6 witness: the set step of the second patch raised
C6_Witness ==
    /\ result.threw
    /\ result.failedAt = 2
    /\ result.cause = Err("SetError")

\* C7 as stated: while applied is false every operation, reset() included,
\* leaves the previous patch list a prefix of the new one.
C7_AppendOnlyWithReset ==
    [][~applied => IsPrefix(patches, patches')]_vars

\* C7: while applied is false every operation other than reset() leaves the
\* previous patch list a prefix of the new one; reset() empties the list.
C7_AppendOnlyExceptReset ==
    [][/\ (~applied /\ ~Reset) => IsPrefix(patches, patches')
       /\ Reset => patches' = <<>>]_vars

\* C7 witness: register() has appended to a list that held a patch already
C7_Witness ==
    /\ ~applied
    /\ Len(patches) >= 2
    /\ logs = <<LogEntry("info", patches[Len(patches)].target, 0, "none")>>
    /\ ~result.threw
    /\ patches[1] # patches[2]

\* C8: reset() leaves an empty patch list and applied false whatever the
\* state; a register() right after it is accepted; and an applyPatches() that
\* ends normally has called exactly the factories of the patches registered
\* since the last reset, once each, in order.
C8_ResetRestoresInitialState ==
    [][/\ Reset => (patches' = <<>> /\ applied' = FALSE)
       /\ \A patch \in PatchSet :
             (patches = <<>> /\ ~applied /\ Register(patch))
                 => (~result'.threw /\ patches' = <<patch>>)
       /\ (~applied /\ AppliesPatches /\ ~result'.threw)
             => FactoriesCalled(calls') = sinceReset]_vars

\* C8 witness: f1 was applied to SvcA, the registry reset, f2 registered alone
\* and applied on top
C8_Witness ==
    /\ applied
    /\ patches = <<[target |-> "SvcA", factory |-> "f2"]>>
    /\ Len(calls) = 3
    /\ container["SvcA"] = <<"f1", "f2">>

(***************************************************************************)
(* Frontend overlay resolution: properties                                 *)
(***************************************************************************)
HasAliasPrefix(source) == StartsWith(source, Append(aliasPrefix, "/"))

\* the path resolveId probes for an override of an alias-prefixed source
OverrideCandidate(source) ==
    frontendExtensionsDir \o <<"/">> \o aliasPrefix \o <<"/">>
        \o SubSeq(source, Len(aliasPrefix) + 2, Len(source))

\* the probe suffixes under which a file exists for a candidate path
ExistingSuffixes(path) ==
    {k \in 1..Len(Extensions) : WithExt(path, Extensions[k]) \in fs}

IsBasePath(path) == path \in fs /\ StartsWith(path, Append(n8nEditorUiSrc, "/"))

\* C9 as stated: resolveId returns null for every specifier that does not
\* start with aliasPrefix + '/'.
C9_NonAliasReturnsNull ==
    [][\A source \in Specifiers :
          (ResolveId(source) /\ ~HasAliasPrefix(source)) => resolved' = Null]_vars

\* C9: resolveId returns null for every specifier that starts neither with
\* aliasPrefix + '/' nor with '@n8n-base/'; for one that starts with
\* '@n8n-base/' and not with aliasPrefix + '/' it returns null or an existing
\* file under the n8n sources; in both cases stats.overrides is unchanged.
\* resolveAliasedPath returns null for every specifier that does not start
\* with aliasPrefix + '/'.
C9_NonAliasNonBaseReturnsNull ==
    [][\A source \in Specifiers :
          (ResolveId(source) /\ ~HasAliasPrefix(source))
              => /\ overrides' = overrides
                 /\ IF StartsWith(source, BaseAlias)
                    THEN resolved' = Null \/ IsBasePath(resolved')
                    ELSE resolved' = Null
                 /\ resolveAliasedPath(source, aliasPrefix, frontendExtensionsDir) = Null]_vars

\* C9 witness: under the default prefix '@' a lookup has returned a file of
\* the n8n sources, which only a '@n8n-base/' specifier obtains
C9_Witness ==
    /\ aliasPrefix = <<"@">>
    /\ checked >= 1
    /\ IsBasePath(resolved)
    /\ overrides = EmptyMap

BaseCandidate(source) ==
    n8nEditorUiSrc \o <<"/">> \o SubSeq(source, Len(BaseAlias) + 1, Len(source))

\* the first of a non-empty set of positions in the probe list
FirstSuffix(found) == CHOOSE k \in found : \A j \in found : k <= j

\* the candidate paths the lookups of the current plugin instance probe
ProbePaths ==
    {OverrideCandidate(source) : source \in {x \in Specifiers : HasAliasPrefix(x)}}
    \cup {BaseCandidate(source) : source \in {x \in Specifiers : StartsWith(x, BaseAlias)}}

\* C11: the probe returns the file of the first suffix of the list '', .ts,
\* .tsx, .js, .jsx, .vue under which one exists (null when none does), for
\* the override probe and the base probe of resolveId alike; a resolveId call
\* repeated for the same source on the same file system returns what the
\* call before it returned.
C11_FirstSuffixWins ==
    [][\A source \in Specifiers :
          ResolveId(source)
              => /\ \A path \in ProbePaths :
                       findFileWithExtensions(fs, path)
                           = IF ExistingSuffixes(path) = {}
                             THEN Null
                             ELSE WithExt(path, Extensions[FirstSuffix(ExistingSuffixes(path))])
                 /\ (HasAliasPrefix(source) /\ ExistingSuffixes(OverrideCandidate(source)) # {})
                       => resolved' = WithExt(OverrideCandidate(source),
                                              Extensions[FirstSuffix(ExistingSuffixes(OverrideCandidate(source)))])
                 /\ (lastCall.source = source /\ lastCall.fs = fs)
                       => resolved' = lastCall.resolved]_vars

\* C11 witness: with a.ts and a.vue both in the override directory, '@/a' was
\* looked up twice in a row and resolved to a.ts
C11_Witness ==
    /\ lastCall.repeated
    /\ lastCall.source = <<"@", "/", "a">>
    /\ {frontendExtensionsDir \o <<"/", "@", "/", "a", e>> : e \in {".ts", ".vue"}} \subseteq fs
    /\ resolved = frontendExtensionsDir \o <<"/", "@", "/", "a", ".ts">>

\* the files of a file system that lie under the n8n sources
BaseFiles(files) == {path \in files : StartsWith(path, Append(n8nEditorUiSrc, "/"))}

IsOverridePath(path) == StartsWith(path, Append(frontendExtensionsDir, "/"))

\* C12 as stated: for every specifier starting with '@n8n-base/' resolveId
\* never returns a path under the extensions directory, and two calls for the
\* same specifier on file systems that differ only under the extensions
\* directory return the same result.
C12_BaseAliasIgnoresOverrides ==
    [][\A source \in Specifiers :
          (ResolveId(source) /\ StartsWith(source, BaseAlias))
              => /\ ~IsOverridePath(resolved')
                 /\ (lastCall.source = source /\ BaseFiles(lastCall.fs) = BaseFiles(fs))
                       => resolved' = lastCall.resolved]_vars

\* C12 where it holds: the same, for plugin instances whose aliasPrefix + '/'
\* is not a prefix of the '@n8n-base/' specifier.
C12_BaseAliasIgnoresOverridesUnlessShadowed ==
    [][\A source \in Specifiers :
          (ResolveId(source) /\ StartsWith(source, BaseAlias) /\ ~HasAliasPrefix(source))
              => /\ ~IsOverridePath(resolved')
                 /\ resolved' = findFileWithExtensions(BaseFiles(fs), BaseCandidate(source))
                 /\ (lastCall.source = source /\ BaseFiles(lastCall.fs) = BaseFiles(fs))
                       => resolved' = lastCall.resolved]_vars

\* C12 witness: under the default prefix '@n8n-base/a' was looked up twice,
\* the override directory changed in between, and both calls returned the
\* file of the n8n sources
C12_Witness ==
    /\ aliasPrefix = <<"@">>
    /\ checked >= 2
    /\ lastCall.source = <<"@", "n8n-base", "/", "a">>
    /\ ~lastCall.repeated
    /\ IsBasePath(resolved)
    /\ \E path \in fs : IsOverridePath(path)

\* C13: within one plugin instance every step keeps each recorded specifier
\* with the override path first recorded for it and never lowers
\* stats.checked; every resolveId call raises stats.checked by exactly one and
\* records at most the specifier it was called with.
C13_StatsMonotone ==
    [][/\ \/ /\ checked' >= checked
             /\ \A source \in DOMAIN overrides :
                   source \in DOMAIN overrides' /\ overrides'[source] = overrides[source]
          \/ NewPluginStep
       /\ \A source \in Specifiers :
             ResolveId(source)
                 => /\ checked' = checked + 1
                    /\ DOMAIN overrides' \subseteq DOMAIN overrides \cup {source}]_vars

\* C13 witness: '@/a' was recorded with a.vue; after a.ts appeared a later
\* lookup returned a.ts and the recorded path is still a.vue
C13_Witness ==
    /\ checked >= 2
    /\ <<"@", "/", "a">> \in DOMAIN overrides
    /\ overrides[<<"@", "/", "a">>] = frontendExtensionsDir \o <<"/", "@", "/", "a", ".vue">>
    /\ lastCall.source = <<"@", "/", "a">>
    /\ resolved = frontendExtensionsDir \o <<"/", "@", "/", "a", ".ts">>

(***************************************************************************)
(* Build-start manifest check: properties                                  *)
(***************************************************************************)
\* no file exists under any probe suffix for the override of a manifest path
OverrideMissing(path) ==
    ExistingSuffixes(frontendExtensionsDir \o <<"/">> \o path) = {}

\* no file exists under any probe suffix for the n8n source of a manifest path
BaseMissing(path) ==
    ExistingSuffixes(n8nEditorUiSrc \o <<"/">>
                         \o (IF HasAliasPrefix(path)
                             THEN SubSeq(path, Len(aliasPrefix) + 2, Len(path))
                             ELSE path)) = {}

\* C14: buildStart checks exactly the manifest's entries of type replace or
\* extend, in manifest order; its issue count is the number of checked entries
\* whose override file is missing plus the number whose base file is missing;
\* it logs one warning per issue, naming the entry's path, and a summary
\* warning with the count iff the count is positive; without a manifest it
\* checks and logs nothing; it never throws.
C14_BuildStartWarnsOnly ==
    [][BuildStart
          => LET cp == built'.checkedPatches
                 noOverride == {i \in DOMAIN cp : OverrideMissing(cp[i].path)}
                 noBase == {i \in DOMAIN cp : BaseMissing(cp[i].path)}
                 w == built'.warnings
             IN  /\ ~built'.threw
                 /\ Len(cp) = Cardinality({i \in DOMAIN manifest.patches :
                                              manifest.patches[i].type \in {"replace", "extend"}})
                 /\ \A i \in DOMAIN cp : cp[i].type \in {"replace", "extend"}
                 /\ \A i, j \in DOMAIN manifest.patches :
                       (i < j /\ manifest.patches[i].type \in {"replace", "extend"}
                              /\ manifest.patches[j].type \in {"replace", "extend"})
                           => \E k, l \in DOMAIN cp :
                                 k < l /\ cp[k] = manifest.patches[i] /\ cp[l] = manifest.patches[j]
                 /\ built'.issues = Cardinality(noOverride) + Cardinality(noBase)
                 /\ Cardinality({k \in DOMAIN w : w[k].kind = "override"}) = Cardinality(noOverride)
                 /\ Cardinality({k \in DOMAIN w : w[k].kind = "base"}) = Cardinality(noBase)
                 /\ \A i \in noOverride : \E k \in DOMAIN w : w[k] = Warning("override", cp[i].path, 0)
                 /\ \A i \in noBase : \E k \in DOMAIN w : w[k] = Warning("base", cp[i].path, 0)
                 /\ IF built'.issues > 0
                    THEN /\ Len(w) = built'.issues + 1
                         /\ w[Len(w)] = Warning("summary", Null, built'.issues)
                    ELSE w = <<>>
                 /\ ~manifest.present => (cp = <<>> /\ w = <<>>)]_vars

\* C14 witness: of a manifest with a hook and a replace entry for '@/a'
\* buildStart checked the replace entry alone and found its override present
\* and its base file missing
C14_Witness ==
    /\ built.ran
    /\ manifest = Manifest(<<Entry(<<"@", "/", "a">>, "hook"), Entry(<<"@", "/", "a">>, "replace")>>)
    /\ built.checkedPatches = <<Entry(<<"@", "/", "a">>, "replace")>>
    /\ built.issues = 1
    /\ built.warnings[1] = Warning("base", <<"@", "/", "a">>, 0)

(***************************************************************************)
(* Patch validator: properties                                             *)
(***************************************************************************)
\* the validator has run and exited
Exited == exitCode # NotExited

\* the validator has exited after validatePatches returned its results
Reported == Exited /\ ~validatePatchesThrows(frontendManifest, backendManifest)

\* the result of the i-th entry of the frontend manifest
FrontendResult(i) == results[i]

\* the result of the j-th entry of the backend manifest
BackendResult(j) == results[Len(frontendManifest.patches) + j]

\* the results that follow those of the manifest entries
ExtraResults ==
    SubSeq(results, Len(frontendManifest.patches) + Len(backendManifest.patches) + 1,
           Len(results))

\* an override file exists under some probe suffix for a manifest path
OverrideExists(path) ==
    ExistingSuffixes(frontendExtensionsDir \o <<"/">> \o path) # {}

\* a file of the n8n sources exists under some probe suffix for a manifest
\* path, its leading '@/' dropped
BaseExists(path) ==
    ExistingSuffixes(n8nEditorUiSrc \o <<"/">>
                         \o (IF StartsWith(path, <<"@", "/">>)
                             THEN SubSeq(path, 3, Len(path))
                             ELSE path)) # {}

\* C15 as stated: every entry of type replace or extend, of the frontend or
\* of the backend manifest, gets valid = true iff an override file and a base
\* file exist under some suffix.
C15_ReplaceExtendCheckedByKind ==
    Reported
        => /\ \A i \in DOMAIN frontendManifest.patches :
                 frontendManifest.patches[i].type \in {"replace", "extend"}
                     => (FrontendResult(i).valid
                            <=> (OverrideExists(frontendManifest.patches[i].path)
                                    /\ BaseExists(frontendManifest.patches[i].path)))
           /\ \A j \in DOMAIN backendManifest.patches :
                 backendManifest.patches[j].type \in {"replace", "extend"}
                     => (BackendResult(j).valid
                            <=> (OverrideExists(backendManifest.patches[j].path)
                                    /\ BaseExists(backendManifest.patches[j].path)))

\* C15 where it holds: every entry of the frontend manifest, whatever its
\* type, gets valid = true (status ok) iff an override file and a base file
\* exist under some suffix; every replace or extend entry of the backend
\* manifest gets valid = true and status ok whatever files exist.
C15_CheckedByManifest ==
    Reported
        => /\ \A i \in DOMAIN frontendManifest.patches :
                 /\ FrontendResult(i).patch = frontendManifest.patches[i]
                 /\ FrontendResult(i).valid
                       <=> (OverrideExists(frontendManifest.patches[i].path)
                               /\ BaseExists(frontendManifest.patches[i].path))
                 /\ FrontendResult(i).status = IF FrontendResult(i).valid THEN "ok" ELSE "missing"
           /\ \A j \in DOMAIN backendManifest.patches :
                 backendManifest.patches[j].type \in {"replace", "extend"}
                     => /\ BackendResult(j).patch = backendManifest.patches[j]
                        /\ BackendResult(j).valid
                        /\ BackendResult(j).status = "ok"

\* C15 witness: a run over a frontend manifest whose replace entry '@/a' has
\* its override but no base file, and a backend manifest with the same entry
C15_Witness ==
    /\ Reported
    /\ frontendManifest = Manifest(<<Entry(<<"@", "/", "a">>, "replace")>>)
    /\ backendManifest = Manifest(<<Entry(<<"@", "/", "a">>, "replace")>>)
    /\ OverrideExists(<<"@", "/", "a">>)
    /\ ~BaseExists(<<"@", "/", "a">>)
    /\ ~results[1].valid
    /\ results[2].valid

\* C16 as stated: every entry of type hook, of the frontend or of the backend
\* manifest, gets status ok and valid = true whatever files exist.
C16_HookAlwaysOk ==
    Reported
        => /\ \A i \in DOMAIN frontendManifest.patches :
                 frontendManifest.patches[i].type = "hook"
                     => (FrontendResult(i).valid /\ FrontendResult(i).status = "ok")
           /\ \A j \in DOMAIN backendManifest.patches :
                 backendManifest.patches[j].type = "hook"
                     => (BackendResult(j).valid /\ BackendResult(j).status = "ok")

\* C16 where it holds: every hook entry of the backend manifest gets status
\* ok, valid = true and no basePath whatever files exist; a hook entry of the
\* frontend manifest gets status missing and valid = false unless an override
\* file and a base file exist for its path.
C16_BackendHookAlwaysOk ==
    Reported
        => /\ \A j \in DOMAIN backendManifest.patches :
                 backendManifest.patches[j].type = "hook"
                     => BackendResult(j)
                            = ValidationResult(backendManifest.patches[j], TRUE, "ok", "none", Null)
           /\ \A i \in DOMAIN frontendManifest.patches :
                 (/\ frontendManifest.patches[i].type = "hook"
                  /\ ~(OverrideExists(frontendManifest.patches[i].path)
                          /\ BaseExists(frontendManifest.patches[i].path)))
                     => (~FrontendResult(i).valid /\ FrontendResult(i).status = "missing")

\* C16 witness: a run in which the hook entry of the backend manifest came
\* out ok with no file svc present, and the hook entry of the frontend
\* manifest came out missing
C16_Witness ==
    /\ Reported
    /\ frontendManifest = Manifest(<<Entry(<<"@", "/", "a">>, "hook")>>)
    /\ backendManifest = Manifest(<<Entry(<<"svc">>, "hook")>>)
    /\ fs = {}
    /\ results[1].status = "missing"
    /\ results[2].status = "ok"
    /\ exitCode = 1

ListedPaths == {frontendManifest.patches[i].path : i \in DOMAIN frontendManifest.patches}

\* the results of the manifest entries: those before the extra results
EntryResults ==
    SubSeq(results, 1, Len(frontendManifest.patches) + Len(backendManifest.patches))

\* every extra result is valid, has status ok and the undocumented message,
\* and the exit code is the one the results of the manifest entries give
ExtrasAreHarmless ==
    /\ \A k \in DOMAIN ExtraResults :
          /\ ExtraResults[k].valid
          /\ ExtraResults[k].status = "ok"
          /\ ExtraResults[k].message = "Patch exists but is not documented in manifest"
    /\ exitCode = (IF \E i \in DOMAIN EntryResults : ~EntryResults[i].valid THEN 1 ELSE 0)

\* C20 as stated: every file of the override tree that matches the patterns
\* and is not listed in the manifest produces an extra result that is valid,
\* has status ok and the undocumented message; the extra results do not change
\* the outcome of the run.
C20_UnlistedFileReported ==
    Reported
        => /\ \A file \in Glob(fs, frontendExtensionsDir) :
                 file \notin ListedPaths
                     => \E k \in DOMAIN ExtraResults : ExtraResults[k].patch.path = file
           /\ ExtrasAreHarmless

\* C20 as the code has it: a matching file produces an extra result, exactly
\* one, iff the manifest lists neither its path nor its path with '@/' put
\* before it; the extra results are valid, have status ok and the undocumented
\* message, and do not change the outcome of the run.
C20_UnlistedUnprefixedFileReported ==
    Reported
        => /\ \A file \in Glob(fs, frontendExtensionsDir) :
                 (file \notin ListedPaths /\ (<<"@", "/">> \o file) \notin ListedPaths)
                     => \E k \in DOMAIN ExtraResults : ExtraResults[k].patch.path = file
           /\ \A k \in DOMAIN ExtraResults :
                 /\ ExtraResults[k].patch.path \in Glob(fs, frontendExtensionsDir)
                 /\ ExtraResults[k].patch.path \notin ListedPaths
                 /\ \A l \in DOMAIN ExtraResults :
                       ExtraResults[l].patch.path = ExtraResults[k].patch.path => l = k
           /\ ExtrasAreHarmless

\* C20 witness: a run over an override tree with the unlisted file @/a.ts and
\* a manifest whose only entry is invalid has reported the file and exited
\* with 1
C20_Witness ==
    /\ Reported
    /\ Len(frontendManifest.patches) = 1
    /\ ~results[1].valid
    /\ Len(ExtraResults) = 1
    /\ ExtraResults[1] = UndocumentedResult(<<"@", "/", "a", ".ts">>)
    /\ exitCode = 1

\* C21: when every path a run reported as undocumented has been added to the
\* frontend manifest as an entry with that path and the validator has run
\* again on the same file system, none of those paths is among the extra
\* results of the second run.
C21_DocumentedNotReportedAgain ==
    (Reported /\ previous.documented # {})
        => \A k \in DOMAIN ExtraResults : ExtraResults[k].patch.path \notin previous.documented

\* C21 witness: the file @/a.ts was reported, documented, and the second run
\* has exited
C21_Witness ==
    /\ Reported
    /\ previous.documented = {<<"@", "/", "a", ".ts">>}
    /\ <<"@", "/", "a", ".ts">> \in Glob(fs, frontendExtensionsDir)
    /\ ExtraResults = <<>>

\* C30 as stated: when a run exited with 0 and reported files as
\* undocumented, the run after an entry was added for each of them, on the
\* same file system, exits with 0.
C30_DocumentingKeepsRunPassing ==
    (Reported /\ previous.documented # {} /\ previous.exitCode = 0) => exitCode = 0

\* C30: when a run exited with 0 and reported files as undocumented, the run
\* after an entry was added for each of them, on the same file system, exits
\* with 0 iff every one of those files has a base file in the n8n sources;
\* an entry without one is reported as missing and the run exits with 1.
C30_DocumentingPassesIffBaseExists ==
    (Reported /\ previous.documented # {} /\ previous.exitCode = 0)
        => /\ exitCode = (IF \A path \in previous.documented : BaseExists(path) THEN 0 ELSE 1)
           /\ \A i \in DOMAIN frontendManifest.patches :
                 (frontendManifest.patches[i].path \in previous.documented
                      /\ ~BaseExists(frontendManifest.patches[i].path))
                     => /\ ~FrontendResult(i).valid
                        /\ FrontendResult(i).status = "missing"

\* C30 witness: a passing run reported @/a.ts, whose base file a.ts exists;
\* the run after the entry was added has exited with 0
C30_Witness ==
    /\ Reported
    /\ previous = [documented |-> {<<"@", "/", "a", ".ts">>}, exitCode |-> 0]
    /\ BaseExists(<<"@", "/", "a", ".ts">>)
    /\ exitCode = 0

\* C28: in every validation result of the validator valid = true iff
\* status = ok; every invalid result has status = missing and a basePath; the
\* statuses changed and error never occur.
C28_ValidIffOk ==
    \A i \in DOMAIN results :
        /\ results[i].valid <=> results[i].status = "ok"
        /\ ~results[i].valid => (results[i].status = "missing" /\ results[i].basePath # Null)
        /\ results[i].status \in {"ok", "missing"}

\* C28 witness: a run has produced an invalid frontend result, an invalid
\* backend result and a valid result for an undocumented file
C28_Witness ==
    /\ Reported
    /\ Len(frontendManifest.patches) = 1
    /\ Len(backendManifest.patches) = 1
    /\ ~FrontendResult(1).valid
    /\ ~BackendResult(1).valid
    /\ Len(ExtraResults) = 1
    /\ ExtraResults[1].valid

\* C27: the applied flag changes only from false to true, by an applyPatches
\* that runs the whole list without a raise, and from true to false, by
\* reset; such an applyPatches always sets it and reset always clears it;
\* register, an applyPatches that throws, an applyPatches on an applied
\* registry, getPatches and isApplied leave it as it is.
C27_AppliedFlagTransitions ==
    [][/\ (applied' # applied)
            => \/ ~applied /\ applied' /\ AppliesPatches /\ ~result'.threw /\ fault'.at = 0
               \/ applied /\ ~applied' /\ result'.op = "reset"
       /\ (AppliesPatches /\ ~result'.threw) => applied'
       /\ (AppliesPatches /\ result'.threw) => (~applied /\ ~applied')
       /\ (AppliesPatches /\ applied) => (applied' /\ ~result'.threw)
       /\ result'.op = "reset" => ~applied'
       /\ result'.op \in {"register", "getPatches", "isApplied"} => applied' = applied]_vars

\* C27 witness: after an applyPatches that threw, a second one has run the
\* list to its end and set the flag
C27_Witness ==
    /\ failedApply
    /\ applied
    /\ result = Returned("applyPatches")
    /\ patches # <<>>

IsSuffix(s, t) == Len(s) <= Len(t) /\ SubSeq(t, Len(t) - Len(s) + 1, Len(t)) = s

\* C25: an applyPatches that follows one that threw at patch k > 1, on the
\* same registry and container, gets for every patch before k that it comes
\* to the instance the first run left in the container, which carries the
\* wrappers of the patches before k, as the original and wraps it again; when
\* it does not raise before k the container holds, for every target, the
\* wrappers of the patches before k followed by them once more.
C25_SecondApplyWrapsAgain ==
    [][(result.op = "applyPatches" /\ result.threw /\ result.failedAt > 1 /\ AppliesPatches)
          => LET k == result.failedAt
                 reach == IF fault'.at = 0 THEN Len(patches) ELSE fault'.at - 1
                 done == IF reach < k - 1 THEN reach ELSE k - 1
                 first(t) == ChainFor(SubSeq(patches, 1, k - 1), t)
                 second(t) == ChainFor(SubSeq(patches, 1, reach), t)
             IN  /\ \A i \in 1..done :
                       /\ first(patches[i].target) # <<>>
                       /\ IsSuffix(first(patches[i].target), container[patches[i].target])
                       /\ calls'[3 * i - 2] = GetCall(patches[i].target)
                       /\ calls'[3 * i - 1]
                            = FactoryCall(patches[i].target, patches[i].factory,
                                          OriginalFor(container, patches, i))
                 /\ \A t \in Targets : container'[t] = container[t] \o second(t)
                 /\ reach >= k - 1
                      => \A t \in Targets :
                            /\ IsPrefix(first(t), second(t))
                            /\ IsSuffix(first(t) \o second(t), container'[t])]_vars

\* C25 witness: of the patches f1 for SvcA and f3 for SvcB the first
\* applyPatches threw at f3; the second ran to its end and SvcA is wrapped by
\* f1 twice
C25_Witness ==
    /\ patches = <<[target |-> "SvcA", factory |-> "f1"], [target |-> "SvcB", factory |-> "f3"]>>
    /\ failedApply
    /\ applied
    /\ result = Returned("applyPatches")
    /\ container["SvcA"] = <<"f1", "f1">>
    /\ container["SvcB"] = <<"f3">>

\* C22: loadManifest never raises; it returns null when the manifest file
\* does not exist or cannot be read and parsed, and the parsed value otherwise.
C22_LoadManifestNeverRaises ==
    configResult.called
        => /\ ~configResult.loadThrew
           /\ manifest = (IF configResult.file.exists /\ configResult.file.parses
                          THEN configResult.file.json
                          ELSE NoManifest)
           /\ configResult.parseError
                 <=> (configResult.file.exists /\ ~configResult.file.parses)

\* C22 witness: configResolved met a manifest file that does not parse;
\* loadManifest logged the failure and returned null
C22_Witness ==
    /\ configResult.called
    /\ configResult.file = UnparsableFile
    /\ configResult.parseError
    /\ ~configResult.loadThrew
    /\ manifest = NoManifest

\* C26 as stated: whatever the manifest file holds, configResolved and
\* buildStart complete without raising.
C26_StartHooksNeverRaise == ~configResult.threw /\ ~built.threw

\* C26 as the code has it: configResolved raises iff the manifest file parses
\* to a value other than null that has no patches list; on a missing file, a
\* file that does not parse, the JSON null and a manifest with a patches list
\* it completes; buildStart, which runs unless configResolved raised, does
\* not raise.
C26_ConfigResolvedRaisesOnShapeless ==
    /\ configResult.called
         => (configResult.threw
                <=> /\ configResult.file.exists
                    /\ configResult.file.parses
                    /\ configResult.file.json.present
                    /\ ~configResult.file.json.hasPatches)
    /\ ~built.threw

\* C26 witness: after configResolved met a manifest file that does not parse,
\* buildStart has run and checked nothing
C26_Witness ==
    /\ configResult.called
    /\ configResult.file = UnparsableFile
    /\ ~configResult.threw
    /\ built.ran
    /\ ~built.threw
    /\ built.checkedPatches = <<>>

\* C29 as stated: whatever the alias prefix, buildStart reports an issue for a
\* replace/extend entry iff validateFrontendPatch finds the entry invalid on
\* the same file system.
C29_BuildStartAgreesWithValidator ==
    [][BuildStart
          => \A i \in DOMAIN built'.checkedPatches :
                (\E k \in DOMAIN built'.warnings :
                      /\ built'.warnings[k].kind \in {"override", "base"}
                      /\ built'.warnings[k].path = built'.checkedPatches[i].path)
                    <=> ~validateFrontendPatch(fs, built'.checkedPatches[i]).valid]_vars

\* C29 as the code has it: buildStart and validateFrontendPatch look for the
\* override file at the same path, so one warns of a missing override iff the
\* other reports 'Override file not found'; they report the same entries when
\* dropping the configured alias prefix and dropping a leading '@/' leave the
\* same base path, as under the default prefix '@'.
C29_AgreesWhenPrefixIsAtSign ==
    [][BuildStart
          => \A i \in DOMAIN built'.checkedPatches :
                LET patch == built'.checkedPatches[i]
                    v == validateFrontendPatch(fs, patch)
                    warned(kind) == \E k \in DOMAIN built'.warnings :
                                       /\ built'.warnings[k].kind = kind
                                       /\ built'.warnings[k].path = patch.path
                IN  /\ warned("override")
                         <=> (~v.valid /\ v.message = "Override file not found")
                    /\ Replace(patch.path, Append(aliasPrefix, "/")) = StripAtSlash(patch.path)
                         => ((warned("override") \/ warned("base")) <=> ~v.valid)
                    /\ (aliasPrefix = <<"@">> /\ StartsWith(patch.path, <<"@", "/">>))
                         => ((warned("override") \/ warned("base")) <=> ~v.valid)]_vars

\* C29 witness: under the prefix '@' buildStart warned of the missing base
\* file of the entry '@/a', whose override exists, and the validator finds
\* the entry invalid for its base file
C29_Witness ==
    /\ aliasPrefix = <<"@">>
    /\ built.ran
    /\ built.checkedPatches = <<Entry(<<"@", "/", "a">>, "replace")>>
    /\ built.warnings = <<Warning("base", <<"@", "/", "a">>, 0), Warning("summary", Null, 1)>>
    /\ ~validateFrontendPatch(fs, Entry(<<"@", "/", "a">>, "replace")).valid
    /\ validateFrontendPatch(fs, Entry(<<"@", "/", "a">>, "replace")).message
         = "Base file not found in n8n - may have been moved or deleted"

\* C24 as stated: for a changed file under the frontend extensions directory
\* that is not a .vue file handleHotUpdate sends a full reload and returns an
\* empty module list; for a .vue file under it and for every file not under
\* it handleHotUpdate sends nothing and returns no value.
C24_HotUpdateByDirectory ==
    hot.called
        => IF StartsWith(hot.file, Append(frontendExtensionsDir, "/"))
                /\ ~EndsWith(hot.file, ".vue")
           THEN hot.fullReload /\ hot.returned = "empty"
           ELSE ~hot.fullReload /\ hot.returned = "undefined"

\* C24 as the code has it: the full reload and the empty module list are the
\* answer to every changed file that is not a .vue file and whose path begins
\* with the characters of the frontend extensions directory's path, the files
\* of a directory such as <extensions>/frontend-old among them; every other
\* file is left to the dev server.
C24_HotUpdateByPathPrefix ==
    hot.called
        => IF StartsWith(hot.file, frontendExtensionsDir) /\ ~EndsWith(hot.file, ".vue")
           THEN hot.fullReload /\ hot.returned = "empty"
           ELSE ~hot.fullReload /\ hot.returned = "undefined"

\* C24 witness: the override a.ts changed and handleHotUpdate has sent the
\* full reload
C24_Witness ==
    /\ hot.called
    /\ hot.file = frontendExtensionsDir \o <<"/", "@", "/", "a", ".ts">>
    /\ hot.fullReload
    /\ hot.returned = "empty"

\* the order the claim gives the loads: the service extensions, then the
\* modules, then the controllers, each group as discovered
ServicesModulesControllers(files) ==
    SelectSeq(<<ServiceFile1, ServiceFile2, ModuleFile, ControllerFile>>,
              LAMBDA f : f \in files)

\* C23: no step of a bootstrap() called by itself changes the registry's
\* applied flag; the loads of a call follow the order services, modules,
\* controllers, each group in discovery order; and initializeExtensions
\* invokes applyPatches only once every discovered file has been loaded, the
\* patches those loads registered standing at the end of the registry's list
\* by then.
C23_LoadsPrecedeApply ==
    [][/\ (boot' # boot /\ boot'.kind = "bootstrap") => applied' = applied
       /\ boot'.loaded # boot.loaded
            => IsPrefix(boot'.loaded, ServicesModulesControllers(fs))
       /\ (boot'.applyCalled /\ ~boot.applyCalled)
            => /\ boot.kind = "initializeExtensions"
               /\ boot.loaded = ServicesModulesControllers(fs)
               /\ IsSuffix(boot.registered, patches)]_vars

\* C23 witness: initializeExtensions has loaded the two service extensions,
\* the module and the controller, and after them has applied the three
\* patches they registered
C23_Witness ==
    /\ boot.kind = "initializeExtensions"
    /\ boot.phase = "done"
    /\ boot.applyCalled
    /\ boot.loaded = <<ServiceFile1, ServiceFile2, ModuleFile, ControllerFile>>
    /\ Len(boot.registered) = 3
    /\ patches = boot.registered
    /\ applied

====
